---------------------------- MODULE Spec2Model ----------------------------
(***************************************************************************)
(* NYC Motor Vehicle Collisions Dashboard (src/app.py).                    *)
(*                                                                         *)
(* The server keeps two tables opened at startup (crash_lazy, person_lazy) *)
(* and the catalogs derived from them; the browser keeps the values of the *)
(* four filter dropdowns and of the search box.  Two callbacks exist:      *)
(* handle_search (search box / clear button -> three dropdown values) and  *)
(* update_dashboard (generate button -> summary and ten charts).           *)
(*                                                                         *)
(* Python values are tagged records, strings are tuples of characters, a   *)
(* table is a schema (column names in source order) and a bag of rows, a   *)
(* row is a function from column names to cells.                           *)
(***************************************************************************)
EXTENDS Integers, Sequences, FiniteSets, Bags, TLC

VARIABLES
    crash_csv,       \* app.py:66   the crash file that scan_csv reads
    person_csv,      \* app.py:67   the person file that scan_csv reads
    crash_lazy,      \* app.py:70   the prepared crash table
    person_lazy,     \* app.py:101  the prepared person table
    crash_count,     \* app.py:111  number of rows of crash_lazy
    person_count,    \* app.py:112  number of rows of person_lazy
    boroughs,        \* app.py:121  sorted borough catalog
    years,           \* app.py:129  sorted year catalog
    vehicle_cols,    \* app.py:132  detected vehicle-type columns
    vehicle_types,   \* app.py:149  sorted vehicle-type catalog
    person_types,    \* app.py:160  sorted person-type catalog
    borough_filter,  \* app.py:255  value of the borough dropdown
    year_filter,     \* app.py:274  value of the year dropdown
    vehicle_filter,  \* app.py:299  value of the vehicle dropdown
    person_filter,   \* app.py:318  value of the person dropdown
    search_input,    \* app.py:339  value of the search box
    report,          \* app.py:1024 what update_dashboard returned last
    last,            \* the last callback invocation: its inputs and outputs
    threads          \* gunicorn_config.py:7  the worker's threads: the
                     \* request each one serves, its position, its locals

globals == <<crash_csv, person_csv, crash_lazy, person_lazy, crash_count,
             person_count, boroughs, years, vehicle_cols, vehicle_types,
             person_types>>
widgets == <<borough_filter, year_filter, vehicle_filter, person_filter,
             search_input>>
vars == <<globals, widgets, report, last, threads>>

-----------------------------------------------------------------------------
(* Python values *)

PyNone == [tag |-> "none", val |-> 0]
PyStr(s) == [tag |-> "str", val |-> s]
PyInt(n) == [tag |-> "int", val |-> n]
PyFloat(n) == [tag |-> "float", val |-> n]
PyDate(y, m, d) == [tag |-> "date", val |-> <<y, m, d>>]
PyList(l) == [tag |-> "list", val |-> l]

\* bool(v): None, "", 0, 0.0 and [] are falsy
Truthy(v) ==
    CASE v.tag = "none" -> FALSE
      [] v.tag = "str" -> Len(v.val) > 0
      [] v.tag = "int" -> v.val # 0
      [] v.tag = "float" -> v.val # 0
      [] v.tag = "list" -> Len(v.val) > 0
      [] OTHER -> TRUE

\* x or y
PyOr(x, y) == IF Truthy(x) THEN x ELSE y

\* isinstance(v, list)
IsList(v) == v.tag = "list"

\* l == [x], for a list l
PyIn_alone(x, l) == l.val = <<x>>

\* x in l, for a list l
PyIn(x, l) == \E i \in 1..Len(l.val) : l.val[i] = x

\* the sentinel "ALL"
ALL == PyStr(<<"A", "L", "L">>)

-----------------------------------------------------------------------------
(* Strings *)

UpperChars == <<"A", "B", "C", "D", "E", "F", "G", "H", "I", "J", "K", "L", "M",
                "N", "O", "P", "Q", "R", "S", "T", "U", "V", "W", "X", "Y", "Z">>
LowerChars == <<"a", "b", "c", "d", "e", "f", "g", "h", "i", "j", "k", "l", "m",
                "n", "o", "p", "q", "r", "s", "t", "u", "v", "w", "x", "y", "z">>
DigitChars == <<"0", "1", "2", "3", "4", "5", "6", "7", "8", "9">>

\* code-point order of the characters the model uses
AsciiOrder == <<" ", "-", "/">> \o DigitChars \o <<":">> \o UpperChars \o LowerChars

CharOrd(c) == CHOOSE i \in 1..Len(AsciiOrder) : AsciiOrder[i] = c

\* c.lower(): a capital letter gives its small letter, any other character
\* stays
LowerOf == [i \in 1..Len(UpperChars) |-> LowerChars[i]]
LowerMap ==
    [c \in {AsciiOrder[i] : i \in 1..Len(AsciiOrder)} \cup {"_"} |->
        IF \E i \in 1..Len(UpperChars) : UpperChars[i] = c
        THEN LowerOf[CHOOSE i \in 1..Len(UpperChars) : UpperChars[i] = c]
        ELSE c]
LowerChar(c) == LowerMap[c]

\* s.lower()
ToLower(s) == [i \in 1..Len(s) |-> LowerChar(s[i])]

\* needle in hay, for two strings
Contains(needle, hay) ==
    \E i \in 0..(Len(hay) - Len(needle)) :
        \A j \in 1..Len(needle) : hay[i + j] = needle[j]

IsDigit(c) == \E i \in 1..10 : DigitChars[i] = c
DigitVal(c) == (CHOOSE i \in 1..10 : DigitChars[i] = c) - 1

RECURSIVE StrOfNat(_)
StrOfNat(n) ==
    IF n < 10 THEN <<DigitChars[n + 1]>>
    ELSE StrOfNat(n \div 10) \o <<DigitChars[(n % 10) + 1]>>

\* str(n) for an int
StrOfInt(n) == IF n < 0 THEN <<"-">> \o StrOfNat(0 - n) ELSE StrOfNat(n)

\* a < b on strings: lexicographic by code point
StrLess(a, b) ==
    LET n == IF Len(a) < Len(b) THEN Len(a) ELSE Len(b)
        d == {i \in 1..n : a[i] # b[i]}
    IN  IF d = {} THEN Len(a) < Len(b)
        ELSE LET i == CHOOSE j \in d : \A k \in d : j <= k
             IN  CharOrd(a[i]) < CharOrd(b[i])

PyLess(a, b) ==
    IF a.tag = "str" THEN StrLess(a.val, b.val) ELSE a.val < b.val

\* sorted(S) for a set S of values of one type
RECURSIVE SortedList(_)
SortedList(S) ==
    IF S = {} THEN <<>>
    ELSE LET m == CHOOSE x \in S : \A y \in S \ {x} : PyLess(x, y)
         IN  <<m>> \o SortedList(S \ {m})

-----------------------------------------------------------------------------
(* Polars: three-valued predicates, tables as bags of rows *)

\* col.is_in(sel): null for a null cell, else membership in the list
is_in(cell, sel) ==
    IF cell = PyNone THEN "N" ELSE IF PyIn(cell, sel) THEN "T" ELSE "F"

\* pl.col(name) > n and pl.col(name) < n: null for a null cell
Gt(cell, n) == IF cell = PyNone THEN "N" ELSE IF cell.val > n THEN "T" ELSE "F"
Lt_or_equal(cell, n) ==
    IF cell = PyNone THEN "N" ELSE IF cell.val <= n THEN "T" ELSE "F"
Lt(cell, n) == IF cell = PyNone THEN "N" ELSE IF cell.val < n THEN "T" ELSE "F"

\* col.is_between(lo, hi), both ends inclusive
is_between(cell, lo, hi) ==
    IF cell = PyNone THEN "N"
    ELSE IF lo <= cell.val /\ cell.val <= hi THEN "T" ELSE "F"

\* col.is_not_null()
is_not_null(cell) == IF cell = PyNone THEN "F" ELSE "T"

\* a | b and a & b on nullable booleans (Kleene)
Or3(a, b) ==
    IF a = "T" \/ b = "T" THEN "T" ELSE IF a = "N" \/ b = "N" THEN "N" ELSE "F"
And3(a, b) ==
    IF a = "F" \/ b = "F" THEN "F" ELSE IF a = "N" \/ b = "N" THEN "N" ELSE "T"

\* the rows of bag b that lie in the set `keep`, with their multiplicities
Restrict(b, keep) == [r \in DOMAIN b \cap keep |-> b[r]]

\* the distinct rows of a table; an expression over a table is a column:
\* a function from these rows to cells
Rows(lf) == DOMAIN lf.rows

\* lf.filter(mask): keeps the rows where the mask is true (not false, not
\* null)
Filter_null_kept(lf, mask) ==
    [schema |-> lf.schema,
     rows |-> Restrict(lf.rows, {r \in Rows(lf) : mask[r] # "F"})]
Filter(lf, mask) ==
    [schema |-> lf.schema,
     rows |-> Restrict(lf.rows, {r \in Rows(lf) : mask[r] = "T"})]

\* lf.select(pl.count())
Count(lf) == BagCardinality(lf.rows)

\* the image of bag b under the function f, multiplicities added up
MapBag(b, f) ==
    [y \in {f[x] : x \in DOMAIN b} |->
        BagCardinality(Restrict(b, {x \in DOMAIN b : f[x] = y}))]

\* lf.with_columns(...): every row extended by its new cells
WithColumns(lf, names, cells) ==
    [schema |-> lf.schema \o names,
     rows |-> MapBag(lf.rows, [r \in Rows(lf) |-> cells[r] @@ r])]

\* lf.collect_schema().names()
Names(lf) == lf.schema
HasColumn(lf, name) == \E i \in 1..Len(lf.schema) : lf.schema[i] = name

\* lf.select(col.drop_nulls().unique())
UniqueNonNull(lf, name) == {r[name] : r \in Rows(lf)} \ {PyNone}

-----------------------------------------------------------------------------
(* Dates: str.to_date(strict=False), dt.year(), dt.month() *)

YEAR_MIN == 2015
YEAR_MAX == 2025

IsLeap(y) == (y % 4 = 0 /\ y % 100 # 0) \/ y % 400 = 0
DaysIn(y, m) ==
    IF m = 2 THEN (IF IsLeap(y) THEN 29 ELSE 28)
    ELSE IF m \in {4, 6, 9, 11} THEN 30 ELSE 31

Num2(s, i) == 10 * DigitVal(s[i]) + DigitVal(s[i + 1])

\* an ISO date "YYYY-MM-DD" parses; any other text, and null, gives null
StrToDate(cell) ==
    IF cell.tag # "str" THEN PyNone
    ELSE LET s == cell.val IN
         IF /\ Len(s) = 10
            /\ s[5] = "-" /\ s[8] = "-"
            /\ \A i \in {1, 2, 3, 4, 6, 7, 9, 10} : IsDigit(s[i])
         THEN LET y == 100 * Num2(s, 1) + Num2(s, 3)
                  m == Num2(s, 6)
                  d == Num2(s, 9)
              IN  IF m \in 1..12 /\ d >= 1 /\ d <= DaysIn(y, m)
                  THEN PyDate(y, m, d) ELSE PyNone
         ELSE PyNone

DtYear(cell) == IF cell.tag = "date" THEN PyInt(cell.val[1]) ELSE PyNone
DtMonth(cell) == IF cell.tag = "date" THEN PyInt(cell.val[2]) ELSE PyNone
\* dt.hour() of a date, which has no time of day
DtHour(cell) == IF cell.tag = "date" THEN PyInt(0) ELSE PyNone

Winter == PyStr(<<"W", "i", "n", "t", "e", "r">>)
Spring == PyStr(<<"S", "p", "r", "i", "n", "g">>)
Summer == PyStr(<<"S", "u", "m", "m", "e", "r">>)
Fall == PyStr(<<"F", "a", "l", "l">>)

MonthList(s) == PyList([i \in 1..Len(s) |-> PyInt(s[i])])

\* the chain with December left out of its first list
SeasonOf_no_december(month) ==
    IF is_in(month, MonthList(<<1, 2>>)) = "T" THEN Winter
    ELSE IF is_in(month, MonthList(<<3, 4, 5>>)) = "T" THEN Spring
    ELSE IF is_in(month, MonthList(<<6, 7, 8>>)) = "T" THEN Summer
    ELSE IF is_in(month, MonthList(<<9, 10, 11>>)) = "T" THEN Fall
    ELSE PyNone

\* the when/then/otherwise chain of the SEASON column
SeasonOf(month) ==
    IF is_in(month, MonthList(<<12, 1, 2>>)) = "T" THEN Winter
    ELSE IF is_in(month, MonthList(<<3, 4, 5>>)) = "T" THEN Spring
    ELSE IF is_in(month, MonthList(<<6, 7, 8>>)) = "T" THEN Summer
    ELSE IF is_in(month, MonthList(<<9, 10, 11>>)) = "T" THEN Fall
    ELSE PyNone

-----------------------------------------------------------------------------
(* Column names.  A name is an atomic string; Spell gives its characters.  *)

Spell ==
    ("CRASH DATE" :> <<"C", "R", "A", "S", "H", " ", "D", "A", "T", "E">>) @@
    ("CRASH TIME" :> <<"C", "R", "A", "S", "H", " ", "T", "I", "M", "E">>) @@
    ("BOROUGH" :> <<"B", "O", "R", "O", "U", "G", "H">>) @@
    ("LATITUDE" :> <<"L", "A", "T", "I", "T", "U", "D", "E">>) @@
    ("LONGITUDE" :> <<"L", "O", "N", "G", "I", "T", "U", "D", "E">>) @@
    ("NUMBER OF PERSONS INJURED" :> <<"N", "U", "M", "B", "E", "R", " ", "O", "F", " ", "P", "E", "R", "S", "O", "N", "S", " ", "I", "N", "J", "U", "R", "E", "D">>) @@
    ("NUMBER OF PERSONS KILLED" :> <<"N", "U", "M", "B", "E", "R", " ", "O", "F", " ", "P", "E", "R", "S", "O", "N", "S", " ", "K", "I", "L", "L", "E", "D">>) @@
    ("CONTRIBUTING FACTOR VEHICLE 1" :> <<"C", "O", "N", "T", "R", "I", "B", "U", "T", "I", "N", "G", " ", "F", "A", "C", "T", "O", "R", " ", "V", "E", "H", "I", "C", "L", "E", " ", "1">>) @@
    ("VEHICLE TYPE CODE 1" :> <<"V", "E", "H", "I", "C", "L", "E", " ", "T", "Y", "P", "E", " ", "C", "O", "D", "E", " ", "1">>) @@
    ("VEHICLE TYPE CODE 2" :> <<"V", "E", "H", "I", "C", "L", "E", " ", "T", "Y", "P", "E", " ", "C", "O", "D", "E", " ", "2">>) @@
    ("PERSON_TYPE" :> <<"P", "E", "R", "S", "O", "N", "_", "T", "Y", "P", "E">>) @@
    ("PERSON_AGE" :> <<"P", "E", "R", "S", "O", "N", "_", "A", "G", "E">>) @@
    ("CRASH_DATE" :> <<"C", "R", "A", "S", "H", "_", "D", "A", "T", "E">>) @@
    ("CRASH_TIME" :> <<"C", "R", "A", "S", "H", "_", "T", "I", "M", "E">>) @@
    ("HOUR" :> <<"H", "O", "U", "R">>) @@
    ("CONTRIBUTING FACTOR VEHICLE 2" :> <<"C", "O", "N", "T", "R", "I", "B", "U", "T", "I", "N", "G", " ", "F", "A", "C", "T", "O", "R", " ", "V", "E", "H", "I", "C", "L", "E", " ", "2">>) @@
    ("YEAR" :> <<"Y", "E", "A", "R">>) @@
    ("MONTH" :> <<"M", "O", "N", "T", "H">>) @@
    ("SEASON" :> <<"S", "E", "A", "S", "O", "N">>)

UpperChar(c) ==
    IF \E i \in 1..Len(LowerChars) : LowerChars[i] = c
    THEN UpperChars[CHOOSE i \in 1..Len(LowerChars) : LowerChars[i] = c]
    ELSE c

\* s.upper()
ToUpper(s) == [i \in 1..Len(s) |-> UpperChar(s[i])]

\* "VEHICLE TYPE CODE" in name.upper()
IsVehicleTypeCol(name) ==
    Contains(<<"V", "E", "H", "I", "C", "L", "E", " ", "T", "Y", "P", "E", " ", "C", "O", "D", "E">>, ToUpper(Spell[name]))

-----------------------------------------------------------------------------
(* The data the model runs on: the two CSV files *)

BRONX == PyStr(<<"B", "R", "O", "N", "X">>)
QUEENS == PyStr(<<"Q", "U", "E", "E", "N", "S">>)
Sedan == PyStr(<<"S", "e", "d", "a", "n">>)
Truck == PyStr(<<"T", "r", "u", "c", "k">>)
Pedestrian == PyStr(<<"P", "e", "d", "e", "s", "t", "r", "i", "a", "n">>)
Bicyclist == PyStr(<<"B", "i", "c", "y", "c", "l", "i", "s", "t">>)
Cyclist == PyStr(<<"C", "y", "c", "l", "i", "s", "t">>)
Occupant == PyStr(<<"O", "c", "c", "u", "p", "a", "n", "t">>)
Unspecified == PyStr(<<"U", "n", "s", "p", "e", "c", "i", "f", "i", "e", "d">>)

Date2019 == PyStr(<<"2", "0", "1", "9", "-", "0", "3", "-", "0", "4">>)
Date2020 == PyStr(<<"2", "0", "2", "0", "-", "0", "7", "-", "1", "5">>)
Date2015 == PyStr(<<"2", "0", "1", "5", "-", "0", "1", "-", "0", "1">>)
Date2025 == PyStr(<<"2", "0", "2", "5", "-", "1", "2", "-", "3", "1">>)
Date2026 == PyStr(<<"2", "0", "2", "6", "-", "0", "1", "-", "0", "1">>)
Date2014 == PyStr(<<"2", "0", "1", "4", "-", "1", "2", "-", "3", "1">>)
DateBad == PyStr(<<"0", "3", "/", "0", "4", "/", "2", "0", "1", "9">>)
Time1430 == PyStr(<<"1", "4", ":", "3", "0">>)

Lat == PyFloat(40)
Lon == PyFloat(-73)

CrashSchema ==
    <<"CRASH DATE", "CRASH TIME", "BOROUGH", "LATITUDE", "LONGITUDE",
      "NUMBER OF PERSONS INJURED", "NUMBER OF PERSONS KILLED",
      "CONTRIBUTING FACTOR VEHICLE 1", "VEHICLE TYPE CODE 1",
      "VEHICLE TYPE CODE 2">>

PersonSchema == <<"CRASH DATE", "BOROUGH", "PERSON_TYPE", "PERSON_AGE">>

CrashRow(date, borough, lat, lon, v1, v2) ==
    ("CRASH DATE" :> date) @@ ("CRASH TIME" :> Time1430) @@
    ("BOROUGH" :> borough) @@ ("LATITUDE" :> lat) @@ ("LONGITUDE" :> lon) @@
    ("NUMBER OF PERSONS INJURED" :> PyInt(1)) @@
    ("NUMBER OF PERSONS KILLED" :> PyInt(0)) @@
    ("CONTRIBUTING FACTOR VEHICLE 1" :> Unspecified) @@
    ("VEHICLE TYPE CODE 1" :> v1) @@ ("VEHICLE TYPE CODE 2" :> v2)

PersonRow(date, borough, ptype, age) ==
    ("CRASH DATE" :> date) @@ ("BOROUGH" :> borough) @@
    ("PERSON_TYPE" :> ptype) @@ ("PERSON_AGE" :> age)

\* a CSV file: the columns `schema` of the rows of the bag `rows`
SeqRange(s) == {s[i] : i \in 1..Len(s)}
Frame(schema, rows) ==
    [schema |-> schema,
     rows |-> MapBag(rows, [r \in DOMAIN rows |->
                               [n \in SeqRange(schema) |-> r[n]]])]

-----------------------------------------------------------------------------
(* Startup: app.py:66-162 *)

\* the first with_columns: the date and the time parsed with to_date
AddParsedColumns(raw) ==
    WithColumns(raw, <<"CRASH_DATE", "CRASH_TIME">>,
        [r \in Rows(raw) |->
            ("CRASH_DATE" :> StrToDate(r["CRASH DATE"])) @@
            ("CRASH_TIME" :> StrToDate(r["CRASH TIME"]))])

\* the second with_columns: YEAR, MONTH, HOUR
AddDateParts(lf) ==
    WithColumns(lf, <<"YEAR", "MONTH", "HOUR">>,
        [r \in Rows(lf) |->
            ("YEAR" :> DtYear(r["CRASH_DATE"])) @@
            ("MONTH" :> DtMonth(r["CRASH_DATE"])) @@
            ("HOUR" :> DtHour(r["CRASH_TIME"]))])

\* the third with_columns: SEASON
AddSeason(lf) ==
    WithColumns(lf, <<"SEASON">>,
        [r \in Rows(lf) |-> "SEASON" :> SeasonOf(r["MONTH"])])

\* the year filter with its lower end only
FilterYears_lower_only(lf) ==
    Filter(lf, [r \in Rows(lf) |-> Gt(r["YEAR"], YEAR_MIN - 1)])

\* .filter(pl.col("YEAR").is_between(2015, 2025))
FilterYears(lf) ==
    Filter(lf, [r \in Rows(lf) |->
                   is_between(r["YEAR"], YEAR_MIN, YEAR_MAX)])

\* crash_lazy: the parsed columns, the date parts and the season added,
\* years 2015..2025 kept
PrepareCrash(raw) == FilterYears(AddSeason(AddDateParts(AddParsedColumns(raw))))

\* person_lazy: CRASH_DATE and YEAR added, years 2015..2025 kept
PreparePerson(raw) ==
    LET a == WithColumns(raw, <<"CRASH_DATE", "YEAR">>,
                 [r \in Rows(raw) |->
                     ("CRASH_DATE" :> StrToDate(r["CRASH DATE"])) @@
                     ("YEAR" :> DtYear(StrToDate(r["CRASH DATE"])))])
    IN  Filter(a, [r \in Rows(a) |->
                      is_between(r["YEAR"], YEAR_MIN, YEAR_MAX)])

\* lf.groupby(name).count(): key -> number of rows (null is a key too)
GroupCount(lf, name) ==
    [k \in {r[name] : r \in Rows(lf)} |->
        BagCardinality(Restrict(lf.rows, {r \in Rows(lf) : r[name] = k}))]

\* .sort("count", descending=True).limit(n): the key sets the limit can keep
\* (which of the keys tied at the cut-off are kept is not determined)
TopKeySets(counts, n) ==
    LET keys == DOMAIN counts
        size == IF Cardinality(keys) < n THEN Cardinality(keys) ELSE n
    IN  {top \in SUBSET keys :
            /\ Cardinality(top) = size
            /\ \A k \in top : \A j \in keys \ top : counts[k] >= counts[j]}

VEHICLE_TYPES_LIMIT == 30

\* the values vehicle_types can get
VehicleTypeCatalogs(lf, cols) ==
    IF cols # <<>>
    THEN LET nonnull == Filter(lf, [r \in Rows(lf) |->
                                       is_not_null(r[cols[1]])])
         IN  {SortedList(top) :
                 top \in TopKeySets(GroupCount(nonnull, cols[1]),
                                    VEHICLE_TYPES_LIMIT)}
    ELSE {<<>>}

PersonTypeCatalog(lf) ==
    IF HasColumn(lf, "PERSON_TYPE")
    THEN SortedList(UniqueNonNull(lf, "PERSON_TYPE"))
    ELSE <<>>

\* the module-level code, run on the two CSV files
Startup(crash_file, person_file) ==
    /\ crash_csv = crash_file
    /\ person_csv = person_file
    /\ crash_lazy = PrepareCrash(crash_csv)
    /\ person_lazy = PreparePerson(person_csv)
    /\ crash_count = Count(crash_lazy)
    /\ person_count = Count(person_lazy)
    /\ boroughs = SortedList(UniqueNonNull(crash_lazy, "BOROUGH"))
    /\ years = SortedList(UniqueNonNull(crash_lazy, "YEAR"))
    /\ vehicle_cols = SelectSeq(Names(crash_lazy), IsVehicleTypeCol)
    /\ vehicle_types \in VehicleTypeCatalogs(crash_lazy, vehicle_cols)
    /\ person_types = PersonTypeCatalog(person_lazy)

\* the layout: every dropdown starts at "ALL", the search box is empty
Layout ==
    /\ borough_filter = ALL
    /\ year_filter = ALL
    /\ vehicle_filter = ALL
    /\ person_filter = ALL
    /\ search_input = PyNone

\* gunicorn_config.py: one worker with two threads, none serving a request
THREADS == 2
NoRequest == [kind |-> "none"]
NoLocals == [sel |-> <<>>, crash_lf |-> <<>>, person_lf |-> <<>>]
Idle ==
    [t \in 1..THREADS |->
        [pc |-> "idle", req |-> NoRequest, loc |-> NoLocals,
         response |-> <<>>, overlap |-> FALSE]]

NoReport == [status |-> "none"]
NoCall == [op |-> "none", triggered |-> <<>>, search_query |-> PyNone,
           current |-> <<PyNone, PyNone, PyNone>>, vehicle |-> PyNone,
           out |-> <<PyNone, PyNone, PyNone>>]

-----------------------------------------------------------------------------
(* parse_search_query: app.py:550-576 *)

kw_pedestrian == <<"p", "e", "d", "e", "s", "t", "r", "i", "a", "n">>
kw_cyclist == <<"c", "y", "c", "l", "i", "s", "t">>
kw_bicyclist == <<"b", "i", "c", "y", "c", "l", "i", "s", "t">>

\* the borough loop without its break: the last match wins
RECURSIVE BoroughLoop_no_break(_, _)
BoroughLoop_no_break(i, q) ==
    IF i > Len(boroughs) THEN PyNone
    ELSE LET rest == BoroughLoop_no_break(i + 1, q)
         IN  IF rest # PyNone THEN rest
             ELSE IF Truthy(boroughs[i]) /\ Contains(ToLower(boroughs[i].val), q)
                  THEN PyList(<<boroughs[i]>>)
                  ELSE PyNone

\* for b in boroughs: if b and b.lower() in q: borough_match = [b]; break
RECURSIVE BoroughLoop(_, _)
BoroughLoop(i, q) ==
    IF i > Len(boroughs) THEN PyNone
    ELSE IF Truthy(boroughs[i]) /\ Contains(ToLower(boroughs[i].val), q)
         THEN PyList(<<boroughs[i]>>)
         ELSE BoroughLoop(i + 1, q)

\* the year loop with year_match = y: the year itself, not a list of it
RECURSIVE YearLoop_scalar(_, _)
YearLoop_scalar(i, q) ==
    IF i > Len(years) THEN PyNone
    ELSE IF Contains(StrOfInt(years[i].val), q)
         THEN years[i]
         ELSE YearLoop_scalar(i + 1, q)

\* for y in years: if str(y) in q: year_match = [y]; break
RECURSIVE YearLoop(_, _)
YearLoop(i, q) ==
    IF i > Len(years) THEN PyNone
    ELSE IF Contains(StrOfInt(years[i].val), q)
         THEN PyList(<<years[i]>>)
         ELSE YearLoop(i + 1, q)

IsPedestrianType(p) == Contains(kw_pedestrian, ToLower(p.val))
IsCyclistType(p) ==
    Contains(kw_cyclist, ToLower(p.val)) \/ Contains(kw_bicyclist, ToLower(p.val))

\* the person branch with the two tests in the other order
PersonMatch_cyclist_first(q) ==
    IF Contains(kw_cyclist, q) \/ Contains(kw_bicyclist, q)
    THEN PyList(SelectSeq(person_types, IsCyclistType))
    ELSE IF Contains(kw_pedestrian, q)
         THEN PyList(SelectSeq(person_types, IsPedestrianType))
         ELSE PyNone

\* if "pedestrian" in q: ... elif "cyclist" in q or "bicyclist" in q: ...
PersonMatch(q) ==
    IF Contains(kw_pedestrian, q)
    THEN PyList(SelectSeq(person_types, IsPedestrianType))
    ELSE IF Contains(kw_cyclist, q) \/ Contains(kw_bicyclist, q)
         THEN PyList(SelectSeq(person_types, IsCyclistType))
         ELSE PyNone

\* returns <<borough_match, year_match, person_match>>
parse_search_query(query) ==
    IF ~Truthy(query) THEN <<PyNone, PyNone, PyNone>>
    ELSE LET q == ToLower(query.val)
         IN  <<BoroughLoop(1, q), YearLoop(1, q), PersonMatch(q)>>

-----------------------------------------------------------------------------
(* handle_search: app.py:596-615 *)

\* handle_search with the clear branch resetting the borough only
handle_search_clear_one(triggered, search_query, current_borough, current_year, current_person) ==
    IF triggered = <<>>
    THEN <<current_borough, current_year, current_person>>
    ELSE LET trigger_id == triggered[1] IN
         IF trigger_id = "clear-search-btn"
         THEN <<ALL, current_year, current_person>>
         ELSE IF trigger_id = "search-input" /\ Truthy(search_query)
              THEN LET Merge(m) == <<PyOr(m[1], current_borough),
                                      PyOr(m[2], current_year),
                                      PyOr(m[3], current_person)>>
                   IN  Merge(parse_search_query(search_query))
              ELSE <<current_borough, current_year, current_person>>

\* handle_search with "match if match is not None else current" for "or"
handle_search_not_none(triggered, search_query, current_borough, current_year, current_person) ==
    IF triggered = <<>>
    THEN <<current_borough, current_year, current_person>>
    ELSE LET trigger_id == triggered[1] IN
         IF trigger_id = "clear-search-btn"
         THEN <<ALL, ALL, ALL>>
         ELSE IF trigger_id = "search-input" /\ Truthy(search_query)
              THEN LET IfSet(x, y) == IF x # PyNone THEN x ELSE y
                       Merge(m) == <<IfSet(m[1], current_borough),
                                      IfSet(m[2], current_year),
                                      IfSet(m[3], current_person)>>
                   IN  Merge(parse_search_query(search_query))
              ELSE <<current_borough, current_year, current_person>>

\* triggered: the ids of the inputs that fired, ctx.triggered
\* returns the new values of <<borough-filter, year-filter, person-filter>>
handle_search(triggered, search_query, current_borough, current_year, current_person) ==
    IF triggered = <<>>
    THEN <<current_borough, current_year, current_person>>
    ELSE LET trigger_id == triggered[1] IN
         IF trigger_id = "clear-search-btn"
         THEN <<ALL, ALL, ALL>>
         ELSE IF trigger_id = "search-input" /\ Truthy(search_query)
              THEN LET Merge(m) == <<PyOr(m[1], current_borough),
                                      PyOr(m[2], current_year),
                                      PyOr(m[3], current_person)>>
                   IN  Merge(parse_search_query(search_query))
              ELSE <<current_borough, current_year, current_person>>

\* one invocation of the callback by the browser: the three outputs are
\* written to the dropdowns, nothing else changes
CallHandleSearch(triggered, search_query) ==
    \E out \in {handle_search(triggered, search_query, borough_filter,
                             year_filter, person_filter)} :
        /\ borough_filter' = out[1]
        /\ year_filter' = out[2]
        /\ person_filter' = out[3]
        /\ search_input' = search_query
        /\ last' = [op |-> "handle_search", triggered |-> triggered,
                    search_query |-> search_query,
                    current |-> <<borough_filter, year_filter, person_filter>>,
                    vehicle |-> vehicle_filter,
                    out |-> out]
        /\ UNCHANGED <<threads, globals, vehicle_filter, report>>

-----------------------------------------------------------------------------
(* The browser session: the dropdowns, the search box, the clear button *)

MaxQueryWords == 3

QueryWords ==
    {<<"B", "r", "o", "n", "x">>,
     <<"q", "u", "e", "e", "n", "s">>,
     <<"2", "0", "1", "9">>,
     <<"2", "0", "2", "0">>,
     <<"P", "e", "d", "e", "s", "t", "r", "i", "a", "n">>,
     <<"c", "y", "c", "l", "i", "s", "t">>,
     <<"b", "i">>}

RECURSIVE Texts(_)
Texts(n) ==
    IF n = 0 THEN {<<>>}
    ELSE Texts(n - 1) \cup {t \o w : t \in Texts(n - 1), w \in QueryWords}

\* what the search box can hold: nothing yet, or a text of a few words
SearchTexts == {PyNone} \cup {PyStr(t) : t \in Texts(MaxQueryWords)}

\* the texts typed in a session: nothing, the empty text, one word, a
\* borough with a person type, or a borough, a year and a person type
SessionTexts ==
    {PyNone} \cup {PyStr(t) : t \in Texts(1)}
        \cup {PyStr(ToLower(QUEENS.val) \o kw_pedestrian),
              PyStr(ToLower(QUEENS.val) \o StrOfInt(2019) \o kw_cyclist)}

\* what a dropdown can hold after the user touched it: the initial "ALL",
\* nothing selected, or the first option selected
DropdownValues(catalog) ==
    {ALL, PyList(<<>>)} \cup {PyList(<<catalog[i]>>) : i \in 1..Len(catalog) \cap {1}}

SmallCrashRows ==
    {CrashRow(Date2019, BRONX, Lat, Lon, Sedan, PyNone),
     CrashRow(Date2020, QUEENS, Lat, Lon, Truck, Sedan),
     CrashRow(Date2020, PyNone, Lat, PyNone, PyNone, PyNone),
     CrashRow(Date2014, BRONX, Lat, Lon, Sedan, PyNone)}

SmallPersonRows ==
    {PersonRow(Date2019, BRONX, Pedestrian, PyInt(30)),
     PersonRow(Date2020, QUEENS, Bicyclist, PyInt(0)),
     PersonRow(Date2020, QUEENS, Cyclist, PyNone),
     PersonRow(Date2019, PyNone, Occupant, PyInt(120))}

SessionCrashFiles == {Frame(CrashSchema, SetToBag(SmallCrashRows))}

SessionPersonFiles ==
    {Frame(PersonSchema, SetToBag(SmallPersonRows)),
     Frame(PersonSchema,
           SetToBag({r \in SmallPersonRows : r["PERSON_TYPE"] # Pedestrian}))}

Init ==
    /\ \E c \in SessionCrashFiles : \E p \in SessionPersonFiles : Startup(c, p)
    /\ Layout
    /\ report = NoReport
    /\ last = NoCall
    /\ threads = Idle

\* the user types in the search box
SearchInput ==
    \E q \in SessionTexts : CallHandleSearch(<<"search-input">>, q)

\* the user clicks Clear
ClearClick == CallHandleSearch(<<"clear-search-btn">>, search_input)

\* the callback runs with no input triggered (the page load)
InitialCall == CallHandleSearch(<<>>, search_input)

\* the user edits one of the four dropdowns
SelectBorough ==
    /\ borough_filter' \in DropdownValues(boroughs)
    /\ last' = NoCall
    /\ UNCHANGED <<threads, globals, year_filter, vehicle_filter, person_filter,
                   search_input, report>>

SelectYear ==
    /\ year_filter' \in DropdownValues(years)
    /\ last' = NoCall
    /\ UNCHANGED <<threads, globals, borough_filter, vehicle_filter, person_filter,
                   search_input, report>>

SelectVehicle ==
    /\ vehicle_filter' \in DropdownValues(vehicle_types)
    /\ last' = NoCall
    /\ UNCHANGED <<threads, globals, borough_filter, year_filter, person_filter,
                   search_input, report>>

SelectPerson ==
    /\ person_filter' \in DropdownValues(person_types)
    /\ last' = NoCall
    /\ UNCHANGED <<threads, globals, borough_filter, year_filter, vehicle_filter,
                   search_input, report>>

Next ==
    \/ SearchInput
    \/ ClearClick
    \/ InitialCall
    \/ SelectBorough
    \/ SelectYear
    \/ SelectVehicle
    \/ SelectPerson

Spec == Init /\ [][Next]_vars

-----------------------------------------------------------------------------
(* Properties of the session *)

IsClear == last.op = "handle_search" /\ last.triggered = <<"clear-search-btn">>
IsSubmit == last.op = "handle_search" /\ last.triggered = <<"search-input">>
IsUntriggered == last.op = "handle_search" /\ last.triggered = <<>>

\* C1 as stated: after a clear action all four selections (borough, year,
\* vehicle type, person type) equal ALL, whatever they were before and
\* whatever the search text is.
C1_ClearResetsFour ==
    IsClear =>
        /\ borough_filter = ALL
        /\ year_filter = ALL
        /\ vehicle_filter = ALL
        /\ person_filter = ALL

\* C1 amended: after a clear action the borough, year and person-type
\* selections equal ALL, whatever they were before and whatever the search
\* text is; the vehicle-type selection and the search text are left as they
\* were.
C1_ClearResetsThree ==
    IsClear =>
        /\ borough_filter = ALL
        /\ year_filter = ALL
        /\ person_filter = ALL
        /\ vehicle_filter = last.vehicle
        /\ search_input = last.search_query

\* a clear that found a search text and non-ALL selections on all four
C1_Witness ==
    /\ IsClear
    /\ Truthy(last.search_query)
    /\ \A d \in 1..3 : last.current[d] # ALL /\ Truthy(last.current[d])
    /\ last.vehicle # ALL /\ Truthy(last.vehicle)

\* C2: on a search submit (and on a call no input triggered) each of the
\* borough, year and person-type selections is the parsed value when the
\* parser resolved a non-empty value for it, and otherwise exactly the
\* caller's current selection; with an empty or absent text all three are
\* the current selections.
C2_SubmitMerges ==
    (IsSubmit \/ IsUntriggered) =>
        LET parsed == IF IsSubmit THEN parse_search_query(last.search_query)
                      ELSE <<PyNone, PyNone, PyNone>>
            now == <<borough_filter, year_filter, person_filter>>
        IN  /\ \A d \in 1..3 :
                  now[d] = IF parsed[d] # PyNone /\ parsed[d] # PyList(<<>>)
                           THEN parsed[d] ELSE last.current[d]
            /\ last.search_query \in {PyNone, PyStr(<<>>)} => now = last.current

\* a submit that resolved the borough to a new value, left the year
\* unresolved over a selected year, and resolved the person type to an
\* empty list over a selected person type
C2_Witness ==
    /\ IsSubmit
    /\ LET parsed == parse_search_query(last.search_query)
       IN  /\ parsed[1] # PyNone
           /\ parsed[1] # last.current[1]
           /\ parsed[2] = PyNone
           /\ last.current[2] # ALL /\ Truthy(last.current[2])
           /\ parsed[3] = PyList(<<>>)
           /\ last.current[3] # ALL /\ Truthy(last.current[3])

-----------------------------------------------------------------------------
(* The parser alone: parse_search_query applied to a text *)

ParseCrashFiles ==
    SessionCrashFiles \cup {Frame(CrashSchema, SetToBag({}))}

ParsePersonFiles ==
    SessionPersonFiles
        \cup {Frame(<<"CRASH DATE", "BOROUGH", "PERSON_AGE">>,
                    SetToBag(SmallPersonRows))}

InitParse ==
    /\ \E c \in ParseCrashFiles : \E p \in ParsePersonFiles : Startup(c, p)
    /\ borough_filter = ALL
    /\ year_filter = ALL
    /\ vehicle_filter = ALL
    /\ person_filter = ALL
    /\ search_input \in SearchTexts
    /\ report = NoReport
    /\ last = NoCall
    /\ threads = Idle

ParseQuery ==
    /\ last' = [op |-> "parse_search_query", triggered |-> <<>>,
                search_query |-> search_input,
                current |-> <<borough_filter, year_filter, person_filter>>,
                vehicle |-> vehicle_filter,
                out |-> parse_search_query(search_input)]
    /\ UNCHANGED <<threads, globals, widgets, report>>

NextParse == ParseQuery

SpecParse == InitParse /\ [][NextParse]_vars

IsParse == last.op = "parse_search_query"

\* the positions of the catalog entries a text matches
BoroughHits(query) ==
    {i \in 1..Len(boroughs) :
        Contains(ToLower(boroughs[i].val), ToLower(query.val))}
YearHits(query) ==
    {i \in 1..Len(years) : Contains(StrOfInt(years[i].val), query.val)}
First(hits) == CHOOSE i \in hits : \A j \in hits : i <= j

\* C8: the borough and year catalogs are sorted ascending; for a non-empty
\* text the borough match is the one-element list of the first catalog
\* borough whose lowercase form occurs in the lowercased text and the year
\* match is the one-element list of the first catalog year whose decimal
\* string occurs in the text; each is None when no entry matches, whatever
\* the other one is.
C8_FirstMatchWins ==
    /\ \A i \in 1..Len(boroughs) : \A j \in 1..Len(boroughs) :
           i < j => StrLess(boroughs[i].val, boroughs[j].val)
    /\ \A i \in 1..Len(years) : \A j \in 1..Len(years) :
           i < j => years[i].val < years[j].val
    /\ (IsParse /\ last.search_query \notin {PyNone, PyStr(<<>>)}) =>
           /\ last.out[1] =
                  IF BoroughHits(last.search_query) = {} THEN PyNone
                  ELSE PyList(<<boroughs[First(BoroughHits(last.search_query))]>>)
           /\ last.out[2] =
                  IF YearHits(last.search_query) = {} THEN PyNone
                  ELSE PyList(<<years[First(YearHits(last.search_query))]>>)

\* a text that names two boroughs, the later one of the catalog first, and
\* no year
C8_Witness ==
    /\ IsParse
    /\ last.search_query.tag = "str"
    /\ Cardinality(BoroughHits(last.search_query)) >= 2
    /\ Contains(ToLower(QUEENS.val) \o ToLower(BRONX.val),
                ToLower(last.search_query.val))
    /\ YearHits(last.search_query) = {}
    /\ last.out[2] = PyNone

HasWord(query, w) == query.tag = "str" /\ Contains(w, ToLower(query.val))
ListSet(l) == {l.val[i] : i \in 1..Len(l.val)}
CatalogTypes(w) == {p \in SeqRange(person_types) : Contains(w, ToLower(p.val))}

\* C9: for every text, the person match holds exactly the catalog person
\* types containing "pedestrian" when the lowercased text contains
\* "pedestrian" (also when it contains "cyclist" too); else exactly those
\* containing "cyclist" or "bicyclist" when the text contains one of these;
\* else it is None.  The result has three components (borough, year,
\* person) and none for the vehicle type.
C9_PersonTypePrecedence ==
    IsParse =>
        /\ Len(last.out) = 3
        /\ IF HasWord(last.search_query, kw_pedestrian)
           THEN /\ IsList(last.out[3])
                /\ ListSet(last.out[3]) = CatalogTypes(kw_pedestrian)
                /\ Len(last.out[3].val) = Cardinality(CatalogTypes(kw_pedestrian))
           ELSE IF \/ HasWord(last.search_query, kw_cyclist)
                   \/ HasWord(last.search_query, kw_bicyclist)
           THEN /\ IsList(last.out[3])
                /\ ListSet(last.out[3]) =
                       CatalogTypes(kw_cyclist) \cup CatalogTypes(kw_bicyclist)
                /\ Len(last.out[3].val) =
                       Cardinality(CatalogTypes(kw_cyclist) \cup CatalogTypes(kw_bicyclist))
           ELSE last.out[3] = PyNone

\* a text with both "pedestrian" and "cyclist" over a catalog that has
\* person types of both kinds
C9_Witness ==
    /\ IsParse
    /\ HasWord(last.search_query, kw_pedestrian)
    /\ HasWord(last.search_query, kw_cyclist)
    /\ CatalogTypes(kw_pedestrian) # {}
    /\ Cardinality(CatalogTypes(kw_cyclist)) >= 2
    /\ last.out[3] = PyList(<<Pedestrian>>)

-----------------------------------------------------------------------------
(* filter_crash_lazy, filter_person_lazy: app.py:517-547 *)

\* the vehicle condition looking at the first vehicle column only
VehicleCond_first_only(r, n, vehicles_sel) ==
    IF n = 0 THEN "F" ELSE is_in(r[vehicle_cols[1]], vehicles_sel)

\* cond = pl.lit(False); for col in vehicle_cols: cond = cond | col.is_in(sel)
RECURSIVE VehicleCond(_, _, _)
VehicleCond(r, n, vehicles_sel) ==
    IF n = 0 THEN "F"
    ELSE Or3(VehicleCond(r, n - 1, vehicles_sel),
             is_in(r[vehicle_cols[n]], vehicles_sel))

\* filter_crash_lazy with the borough clause not checking for the sentinel
filter_crash_lazy_no_sentinel(boroughs_sel, years_sel, vehicles_sel) ==
    LET lf0 == crash_lazy
        lf1 == IF Truthy(boroughs_sel)
               THEN Filter(lf0, [r \in Rows(lf0) |->
                                    is_in(r["BOROUGH"], boroughs_sel)])
               ELSE lf0
        lf2 == IF Truthy(years_sel) /\ ~PyIn(ALL, years_sel)
               THEN Filter(lf1, [r \in Rows(lf1) |->
                                    is_in(r["YEAR"], years_sel)])
               ELSE lf1
        lf3 == IF /\ Truthy(vehicles_sel) /\ ~PyIn(ALL, vehicles_sel)
                  /\ vehicle_cols # <<>>
               THEN Filter(lf2, [r \in Rows(lf2) |->
                                    VehicleCond(r, Len(vehicle_cols),
                                                vehicles_sel)])
               ELSE lf2
    IN  lf3

\* filter_crash_lazy joined to the person table: with a person type picked,
\* only the crashes of a borough and year of a person of that type
filter_crash_lazy_joined(boroughs_sel, years_sel, vehicles_sel) ==
    LET lf0 == crash_lazy
        lf1 == IF Truthy(boroughs_sel) /\ ~PyIn(ALL, boroughs_sel)
               THEN Filter(lf0, [r \in Rows(lf0) |->
                                    is_in(r["BOROUGH"], boroughs_sel)])
               ELSE lf0
        lf2 == IF Truthy(years_sel) /\ ~PyIn(ALL, years_sel)
               THEN Filter(lf1, [r \in Rows(lf1) |->
                                    is_in(r["YEAR"], years_sel)])
               ELSE lf1
        lf3 == IF /\ Truthy(vehicles_sel) /\ ~PyIn(ALL, vehicles_sel)
                  /\ vehicle_cols # <<>>
               THEN Filter(lf2, [r \in Rows(lf2) |->
                                    VehicleCond(r, Len(vehicle_cols),
                                                vehicles_sel)])
               ELSE lf2
        lf4 == IF person_filter # ALL /\ HasColumn(person_lazy, "PERSON_TYPE")
               THEN Filter(lf3, [r \in Rows(lf3) |->
                        IF \E p \in Rows(person_lazy) :
                              /\ p["PERSON_TYPE"] = person_filter
                              /\ p["BOROUGH"] = r["BOROUGH"]
                              /\ p["YEAR"] = r["YEAR"]
                        THEN "T" ELSE "F"])
               ELSE lf3
    IN  lf4

\* filter_crash_lazy with a vehicle clause that no row passes when no
\* vehicle-type column was detected
filter_crash_lazy_absent_drops(boroughs_sel, years_sel, vehicles_sel) ==
    LET lf0 == crash_lazy
        lf1 == IF Truthy(boroughs_sel) /\ ~PyIn(ALL, boroughs_sel)
               THEN Filter(lf0, [r \in Rows(lf0) |->
                                    is_in(r["BOROUGH"], boroughs_sel)])
               ELSE lf0
        lf2 == IF Truthy(years_sel) /\ ~PyIn(ALL, years_sel)
               THEN Filter(lf1, [r \in Rows(lf1) |->
                                    is_in(r["YEAR"], years_sel)])
               ELSE lf1
        lf3 == IF Truthy(vehicles_sel) /\ ~PyIn(ALL, vehicles_sel)
               THEN IF vehicle_cols # <<>>
                    THEN Filter(lf2, [r \in Rows(lf2) |->
                                         VehicleCond(r, Len(vehicle_cols),
                                                     vehicles_sel)])
                    ELSE Filter(lf2, [r \in Rows(lf2) |-> "F"])
               ELSE lf2
    IN  lf3

filter_crash_lazy(boroughs_sel, years_sel, vehicles_sel) ==
    LET lf0 == crash_lazy
        lf1 == IF Truthy(boroughs_sel) /\ ~PyIn(ALL, boroughs_sel)
               THEN Filter(lf0, [r \in Rows(lf0) |->
                                    is_in(r["BOROUGH"], boroughs_sel)])
               ELSE lf0
        lf2 == IF Truthy(years_sel) /\ ~PyIn(ALL, years_sel)
               THEN Filter(lf1, [r \in Rows(lf1) |->
                                    is_in(r["YEAR"], years_sel)])
               ELSE lf1
        lf3 == IF /\ Truthy(vehicles_sel) /\ ~PyIn(ALL, vehicles_sel)
                  /\ vehicle_cols # <<>>
               THEN Filter(lf2, [r \in Rows(lf2) |->
                                    VehicleCond(r, Len(vehicle_cols),
                                                vehicles_sel)])
               ELSE lf2
    IN  lf3

\* filter_person_lazy without its year clause
filter_person_lazy_no_year(boroughs_sel, years_sel, persons_sel) ==
    LET lf0 == person_lazy
        lf1 == IF Truthy(boroughs_sel) /\ ~PyIn(ALL, boroughs_sel)
               THEN Filter(lf0, [r \in Rows(lf0) |->
                                    is_in(r["BOROUGH"], boroughs_sel)])
               ELSE lf0
        lf3 == IF /\ Truthy(persons_sel) /\ ~PyIn(ALL, persons_sel)
                  /\ HasColumn(person_lazy, "PERSON_TYPE")
               THEN Filter(lf1, [r \in Rows(lf1) |->
                                    is_in(r["PERSON_TYPE"], persons_sel)])
               ELSE lf1
    IN  lf3

filter_person_lazy(boroughs_sel, years_sel, persons_sel) ==
    LET lf0 == person_lazy
        lf1 == IF Truthy(boroughs_sel) /\ ~PyIn(ALL, boroughs_sel)
               THEN Filter(lf0, [r \in Rows(lf0) |->
                                    is_in(r["BOROUGH"], boroughs_sel)])
               ELSE lf0
        lf2 == IF Truthy(years_sel) /\ ~PyIn(ALL, years_sel)
               THEN Filter(lf1, [r \in Rows(lf1) |->
                                    is_in(r["YEAR"], years_sel)])
               ELSE lf1
        lf3 == IF /\ Truthy(persons_sel) /\ ~PyIn(ALL, persons_sel)
                  /\ HasColumn(person_lazy, "PERSON_TYPE")
               THEN Filter(lf2, [r \in Rows(lf2) |->
                                    is_in(r["PERSON_TYPE"], persons_sel)])
               ELSE lf2
    IN  lf3

-----------------------------------------------------------------------------
(* update_dashboard: app.py:640-1036 *)

\* if sel == "ALL" or not sel: sel = ["ALL"]
\* elif not isinstance(sel, list): sel = [sel]
NormalizeBoroughs(boroughs_sel) ==
    IF boroughs_sel = ALL \/ ~Truthy(boroughs_sel) THEN PyList(<<ALL>>)
    ELSE IF ~IsList(boroughs_sel) THEN PyList(<<boroughs_sel>>)
    ELSE boroughs_sel

NormalizeYears(years_sel) ==
    IF years_sel = ALL \/ ~Truthy(years_sel) THEN PyList(<<ALL>>)
    ELSE IF ~IsList(years_sel) THEN PyList(<<years_sel>>)
    ELSE years_sel

NormalizeVehicles(vehicles_sel) ==
    IF vehicles_sel = ALL \/ ~Truthy(vehicles_sel) THEN PyList(<<ALL>>)
    ELSE IF ~IsList(vehicles_sel) THEN PyList(<<vehicles_sel>>)
    ELSE vehicles_sel

\* the person normalization without its `or not persons_sel`
NormalizePersons_no_empty(persons_sel) ==
    IF persons_sel = ALL THEN PyList(<<ALL>>)
    ELSE IF ~IsList(persons_sel) THEN PyList(<<persons_sel>>)
    ELSE persons_sel

NormalizePersons(persons_sel) ==
    IF persons_sel = ALL \/ ~Truthy(persons_sel) THEN PyList(<<ALL>>)
    ELSE IF ~IsList(persons_sel) THEN PyList(<<persons_sel>>)
    ELSE persons_sel

\* pl.col(name).sum(): the non-null cells added up, None for no rows
RECURSIVE BagSum(_, _)
BagSum(b, name) ==
    IF DOMAIN b = {} THEN 0
    ELSE LET r == CHOOSE x \in DOMAIN b : TRUE
             v == IF r[name] = PyNone THEN 0 ELSE r[name].val * b[r]
         IN  v + BagSum(Restrict(b, DOMAIN b \ {r}), name)
ColumnSum(lf, name) ==
    IF Rows(lf) = {} THEN PyNone ELSE PyInt(BagSum(lf.rows, name))

\* int(x or 0)
IntOrZero(x) == PyOr(x, PyInt(0)).val

\* lf.select([...]): the named columns of every row
Select(lf, names) ==
    [schema |-> names,
     rows |-> MapBag(lf.rows, [r \in Rows(lf) |->
                                  [n \in SeqRange(names) |-> r[n]]])]


MAP_SAMPLE_MAX == 2000

\* sample_n = min(2000, map_count)
SampleSize_uncapped(map_count) == map_count
SampleSize(map_count) ==
    IF MAP_SAMPLE_MAX < map_count THEN MAP_SAMPLE_MAX ELSE map_count

\* map_base.sample(n=n, with_replacement=False): any n of the rows, each
\* row drawn at most once
RECURSIVE Samples(_, _)
Samples(b, n) ==
    IF DOMAIN b = {} THEN (IF n = 0 THEN {EmptyBag} ELSE {})
    ELSE LET r == CHOOSE x \in DOMAIN b : TRUE
             rest == Restrict(b, DOMAIN b \ {r})
             restSize == BagCardinality(rest)
             lo == IF n > restSize THEN n - restSize ELSE 0
             hi == IF b[r] < n THEN b[r] ELSE n
         IN  UNION {{IF k = 0 THEN s ELSE s @@ (r :> k) :
                        s \in Samples(rest, n - k)} : k \in lo..hi}

MapColumns ==
    <<"LATITUDE", "LONGITUDE", "BOROUGH", "NUMBER OF PERSONS INJURED">>

\* .sort(name) of a grouped frame: the keys ascending, a null key first
SortKeys(keys) ==
    (IF PyNone \in keys THEN <<PyNone>> ELSE <<>>)
        \o SortedList(keys \ {PyNone})

\* .sort("count", descending=True) of a grouped frame: the orders of the
\* keys the sort can give (the order of keys with equal counts is not
\* determined: groupby yields its groups in no fixed order)
RECURSIVE CountOrders(_, _)
CountOrders(counts, keys) ==
    IF keys = {} THEN {<<>>}
    ELSE LET top == {k \in keys : \A j \in keys : counts[k] >= counts[j]}
         IN  UNION {{<<k>> \o rest :
                        rest \in CountOrders(counts, keys \ {k})} :
                    k \in top}

\* .limit(n + 1)
Limit_one_more(seq, n) ==
    SubSeq(seq, 1, IF Len(seq) < n + 1 THEN Len(seq) ELSE n + 1)

\* .limit(n)
Limit(seq, n) == SubSeq(seq, 1, IF Len(seq) < n THEN Len(seq) ELSE n)

\* the rows of a grouped frame in the given order of its keys
GroupRows(counts, order) ==
    [i \in 1..Len(order) |-> [key |-> order[i], count |-> counts[order[i]]]]

\* groupby(name).count().sort(name)
GroupedByKey(lf, name) ==
    LET counts == GroupCount(lf, name)
    IN  GroupRows(counts, SortKeys(DOMAIN counts))

\* groupby(name).count().sort("count", descending=True).limit(n), and
\* without a limit for n = 0: every frame the query can give
GroupedByCount(lf, name, n) ==
    LET counts == GroupCount(lf, name)
    IN  {GroupRows(counts, IF n = 0 THEN o ELSE Limit(o, n)) :
            o \in CountOrders(counts, DOMAIN counts)}

VICTIM_LIMIT == 5
FACTORS_LIMIT == 10
VEHICLE_LIMIT == 10

\* "CONTRIBUTING FACTOR" in name.upper()
IsFactorCol(name) ==
    Contains(<<"C", "O", "N", "T", "R", "I", "B", "U", "T", "I", "N", "G", " ", "F", "A", "C", "T", "O", "R">>, ToUpper(Spell[name]))

\* season_order, and sort_values on the categorical SEASON column: the
\* seasons in this order, any other key last
season_order == <<Spring, Summer, Fall, Winter>>
SeasonSorted(counts) ==
    LET known == SelectSeq(season_order, LAMBDA x : x \in DOMAIN counts)
        other == SortKeys(DOMAIN counts \ SeqRange(season_order))
    IN  GroupRows(counts, known \o other)

\* dt.strftime("%A"): the name of the day of the week of a date
weekday_order ==
    <<PyStr(<<"M", "o", "n", "d", "a", "y">>),
      PyStr(<<"T", "u", "e", "s", "d", "a", "y">>),
      PyStr(<<"W", "e", "d", "n", "e", "s", "d", "a", "y">>),
      PyStr(<<"T", "h", "u", "r", "s", "d", "a", "y">>),
      PyStr(<<"F", "r", "i", "d", "a", "y">>),
      PyStr(<<"S", "a", "t", "u", "r", "d", "a", "y">>),
      PyStr(<<"S", "u", "n", "d", "a", "y">>)>>
MonthOffsets == <<0, 3, 2, 5, 0, 3, 5, 1, 4, 6, 2, 4>>
WeekdayName(cell) ==
    IF cell.tag # "date" THEN PyNone
    ELSE LET y == IF cell.val[2] < 3 THEN cell.val[1] - 1 ELSE cell.val[1]
             dow == (y + (y \div 4) - (y \div 100) + (y \div 400)
                       + MonthOffsets[cell.val[2]] + cell.val[3]) % 7
         IN  weekday_order[IF dow = 0 THEN 7 ELSE dow]

\* heat_lf.groupby(["HOUR", "WEEKDAY"]).count(): the cells of the pivot,
\* (hour, weekday) -> crashes; the pivot shows 0 for a pair not in it
HeatCounts(lf) ==
    LET pair(r) == <<r["HOUR"], WeekdayName(r["CRASH_DATE"])>>
    IN  [k \in {pair(r) : r \in Rows(lf)} |->
            BagCardinality(Restrict(lf.rows,
                                    {r \in Rows(lf) : pair(r) = k}))]

AGE_MIN == 0
AGE_MAX == 120

\* the ages of the histogram: not null, above 0, below 120
AgeFrame(person_lf) ==
    Select(Filter(person_lf, [r \in Rows(person_lf) |->
                     And3(And3(is_not_null(r["PERSON_AGE"]),
                               Gt(r["PERSON_AGE"], AGE_MIN)),
                          Lt(r["PERSON_AGE"], AGE_MAX))]),
           <<"PERSON_AGE">>)

\* a figure holding only an annotation
Annotation_empty_figure(text) == [kind |-> "bar", rows |-> <<>>]
Annotation(text) == [kind |-> "annotation", text |-> text]

\* crash_lf.select([...]).filter(LATITUDE.is_not_null() & LONGITUDE.is_not_null())
MapBase(crash_lf) ==
    LET selected == Select(crash_lf, MapColumns)
    IN  Filter(selected, [r \in Rows(selected) |->
                             And3(is_not_null(r["LATITUDE"]),
                                  is_not_null(r["LONGITUDE"]))])

\* the column the vehicle view groups by, line 846; as a variant, the last
\* detected column
vcol_last == vehicle_cols[Len(vehicle_cols)]
vcol == vehicle_cols[1]

\* the eleven outputs update_dashboard can return for the filtered tables:
\* lines 667-1036, from the summary to the return
Outputs(crash_lf, person_lf) ==
    LET total_crashes == IntOrZero(PyInt(Count(crash_lf)))
        total_injuries ==
            IntOrZero(ColumnSum(crash_lf, "NUMBER OF PERSONS INJURED"))
        total_deaths ==
            IntOrZero(ColumnSum(crash_lf, "NUMBER OF PERSONS KILLED"))
        temporal_df == GroupedByKey(crash_lf, "YEAR")
        hour_df == GroupedByKey(crash_lf, "HOUR")
        has_person_type == HasColumn(person_lazy, "PERSON_TYPE")
        factor_cols == SelectSeq(Names(crash_lazy), IsFactorCol)
        seasonal_df == SeasonSorted(GroupCount(crash_lf, "SEASON"))
        heat_df == HeatCounts(crash_lf)
        fig_age == IF HasColumn(person_lazy, "PERSON_AGE")
                   THEN [kind |-> "histogram",
                         ages |-> AgeFrame(person_lf).rows]
                   ELSE Annotation("Age data not available")
    IN  UNION {
        LET map_count == Count(map_base)
            sample_n == SampleSize(map_count)
        IN  {[status |-> "ok",
              total_crashes |-> total_crashes,
              total_injuries |-> total_injuries,
              total_deaths |-> total_deaths,
              temporal |-> [kind |-> "line", rows |-> temporal_df],
              borough |-> [kind |-> "bar", rows |-> borough_df],
              hour |-> [kind |-> "area", rows |-> hour_df],
              victim |-> IF has_person_type
                         THEN [kind |-> "pie", rows |-> victim_df]
                         ELSE Annotation("Person type data not available"),
              factors |-> IF factor_cols # <<>>
                          THEN [kind |-> "bar", rows |-> factors_df]
                          ELSE Annotation("Contributing factor data not available"),
              vehicle |-> IF vehicle_cols # <<>>
                          THEN [kind |-> "bar", rows |-> vehicle_df]
                          ELSE Annotation("Vehicle type data not available"),
              map |-> IF map_count > 0
                      THEN [kind |-> "scatter_mapbox",
                            map_df |-> map_df,
                            sample_n |-> sample_n,
                            map_count |-> map_count]
                      ELSE Annotation("No location data available for selected filters"),
              seasonal |-> [kind |-> "bar", rows |-> seasonal_df],
              heatmap |-> [kind |-> "heatmap", cells |-> heat_df],
              age |-> fig_age] :
                borough_df \in GroupedByCount(crash_lf, "BOROUGH", 0),
                victim_df \in (IF has_person_type
                               THEN GroupedByCount(person_lf, "PERSON_TYPE",
                                                   VICTIM_LIMIT)
                               ELSE {<<>>}),
                factors_df \in (IF factor_cols # <<>>
                                THEN GroupedByCount(crash_lf, factor_cols[1],
                                                    FACTORS_LIMIT)
                                ELSE {<<>>}),
                vehicle_df \in (IF vehicle_cols # <<>>
                                THEN GroupedByCount(crash_lf, vcol,
                                                    VEHICLE_LIMIT)
                                ELSE {<<>>}),
                map_df \in (IF map_count > 0
                            THEN Samples(map_base.rows, sample_n)
                            ELSE {EmptyBag})} :
        map_base \in {MapBase(crash_lf)}}

\* what is kept of the report before the last one
Previous ==
    IF last.op = "update_dashboard"
    THEN [args |-> last.args, schemas |-> last.schemas, report |-> report,
          crash_lf |-> last.crash_lf, person_lf |-> last.person_lf]
    ELSE [args |-> <<>>, schemas |-> <<>>, report |-> NoReport,
          crash_lf |-> <<>>, person_lf |-> <<>>]

\* the callback of the Generate Report button, with the four dropdown
\* values as its state arguments; report is the tuple of eleven outputs
UpdateDashboard ==
    LET boroughs_sel == NormalizeBoroughs(borough_filter)
        years_sel == NormalizeYears(year_filter)
        vehicles_sel == NormalizeVehicles(vehicle_filter)
        persons_sel == NormalizePersons(person_filter)
    IN  \E crash_lf \in {filter_crash_lazy(boroughs_sel, years_sel,
                                           vehicles_sel)} :
        \E person_lf \in {filter_person_lazy(boroughs_sel, years_sel,
                                             persons_sel)} :
        /\ report' \in Outputs(crash_lf, person_lf)
        /\ last' = [op |-> "update_dashboard",
                    args |-> <<borough_filter, year_filter, vehicle_filter,
                               person_filter>>,
                    sel |-> <<boroughs_sel, years_sel, vehicles_sel,
                              persons_sel>>,
                    crash_lf |-> crash_lf,
                    person_lf |-> person_lf,
                    schemas |-> <<crash_csv.schema, person_csv.schema>>,
                    prev |-> Previous]
        /\ UNCHANGED <<threads, globals, widgets>>

\* the worker starts again (gunicorn's max_requests) and runs the module
\* code on the files it finds: Startup, as a step
Restart(crash_file, person_file) ==
    /\ crash_csv' = crash_file
    /\ person_csv' = person_file
    /\ crash_lazy' = PrepareCrash(crash_file)
    /\ person_lazy' = PreparePerson(person_file)
    /\ crash_count' = Count(crash_lazy')
    /\ person_count' = Count(person_lazy')
    /\ boroughs' = SortedList(UniqueNonNull(crash_lazy', "BOROUGH"))
    /\ years' = SortedList(UniqueNonNull(crash_lazy', "YEAR"))
    /\ vehicle_cols' = SelectSeq(Names(crash_lazy'), IsVehicleTypeCol)
    /\ vehicle_types' \in VehicleTypeCatalogs(crash_lazy', vehicle_cols')
    /\ person_types' = PersonTypeCatalog(person_lazy')
    /\ UNCHANGED <<threads, widgets, report, last>>

-----------------------------------------------------------------------------
(* Reports: every raw selection against several datasets *)

BulkCopies == 1999

UNKNOWN_TEXT == PyStr(<<"O", "t", "h", "e", "r">>)
UNKNOWN_YEAR == PyInt(1999)

\* what a dropdown can send: nothing, the sentinel, an empty list, one
\* option as a scalar, lists of options, a list holding the sentinel, and
\* values that are no option of the dropdown
RawSelections(k1, k2, other) ==
    {PyNone, ALL, PyList(<<>>), k1, other, PyList(<<k1, k2>>),
     PyList(<<ALL, k1>>), PyList(<<other>>)}

VehiclePairs ==
    {<<Sedan, PyNone>>, <<PyNone, PyNone>>, <<Truck, Sedan>>}

WideCrashRows ==
    {CrashRow(d, b, Lat, Lon, v[1], v[2]) :
        d \in {Date2019, Date2020}, b \in {BRONX, QUEENS, PyNone},
        v \in VehiclePairs}
    \cup {CrashRow(Date2019, BRONX, Lat, Lon, v[1], v[2]) :
             v \in {<<PyNone, Sedan>>, <<Truck, PyNone>>, <<Truck, Truck>>}}
    \cup {CrashRow(Date2019, b, c[1], c[2], Sedan, PyNone) :
             b \in {BRONX, QUEENS},
             c \in {<<Lat, PyNone>>, <<PyNone, Lon>>, <<PyNone, PyNone>>}}
    \cup {CrashRow(Date2014, BRONX, Lat, Lon, Sedan, PyNone),
          CrashRow(Date2015, BRONX, Lat, Lon, Sedan, PyNone),
          CrashRow(Date2025, QUEENS, Lat, Lon, PyNone, PyNone),
          CrashRow(Date2026, QUEENS, Lat, Lon, Sedan, PyNone),
          CrashRow(DateBad, QUEENS, Lat, Lon, Truck, PyNone),
          CrashRow(PyNone, BRONX, Lat, Lon, Sedan, Truck)}

WidePersonRows ==
    {PersonRow(d, b, t, PyInt(30)) :
        d \in {Date2019, Date2020}, b \in {BRONX, QUEENS, PyNone},
        t \in {Pedestrian, Bicyclist, PyNone}}
    \cup {PersonRow(Date2014, BRONX, Pedestrian, PyInt(30)),
          PersonRow(Date2015, BRONX, Pedestrian, PyInt(30)),
          PersonRow(Date2025, QUEENS, Occupant, PyInt(30)),
          PersonRow(Date2026, QUEENS, Pedestrian, PyInt(30)),
          PersonRow(DateBad, QUEENS, Occupant, PyInt(30))}

\* one kind of row many times over, so that the rows with coordinates are
\* none, fewer than, as many as and more than the map's cap
BulkCrashRows ==
    (CrashRow(Date2020, QUEENS, Lat, Lon, Truck, Sedan) :> BulkCopies) @@
    (CrashRow(Date2019, QUEENS, Lat, Lon, Sedan, Truck) :> 1) @@
    (CrashRow(Date2020, PyNone, Lat, Lon, PyNone, PyNone) :> 1) @@
    (CrashRow(Date2019, BRONX, Lat, PyNone, Sedan, PyNone) :> 3)

BulkPersonRows ==
    (PersonRow(Date2019, BRONX, Pedestrian, PyInt(30)) :> 2) @@
    (PersonRow(Date2020, QUEENS, Bicyclist, PyInt(30)) :> 1)

CrashSchemaNoVehicle ==
    <<"CRASH DATE", "CRASH TIME", "BOROUGH", "LATITUDE", "LONGITUDE",
      "NUMBER OF PERSONS INJURED", "NUMBER OF PERSONS KILLED",
      "CONTRIBUTING FACTOR VEHICLE 1">>

PersonSchemaNoType == <<"CRASH DATE", "BOROUGH", "PERSON_AGE">>

WideFiles ==
    <<Frame(CrashSchema, SetToBag(WideCrashRows)),
      Frame(PersonSchema, SetToBag(WidePersonRows))>>

BulkFiles ==
    <<Frame(CrashSchema, BulkCrashRows), Frame(PersonSchema, BulkPersonRows)>>

NoFamilyFiles ==
    <<Frame(CrashSchemaNoVehicle, SetToBag(SmallCrashRows)),
      Frame(PersonSchemaNoType, SetToBag(SmallPersonRows))>>

\* fewer raw selections: the sentinel, one option, two options, no option
FewSelections(k1, k2, other) == {ALL, k1, PyList(<<k1, k2>>), other}

\* the raw selections of the four dropdowns: all of them, or the fewer
Selections(few) ==
    IF few
    THEN <<FewSelections(BRONX, QUEENS, UNKNOWN_TEXT),
           FewSelections(PyInt(2019), PyInt(2020), UNKNOWN_YEAR),
           FewSelections(Sedan, Truck, UNKNOWN_TEXT),
           FewSelections(Pedestrian, Bicyclist, UNKNOWN_TEXT)>>
    ELSE <<RawSelections(BRONX, QUEENS, UNKNOWN_TEXT),
           RawSelections(PyInt(2019), PyInt(2020), UNKNOWN_YEAR),
           RawSelections(Sedan, Truck, UNKNOWN_TEXT),
           RawSelections(Pedestrian, Bicyclist, UNKNOWN_TEXT)>>

\* the server started on the files, the page showing the selections
ReportCase(files, bs, ys, vs, ps) ==
    /\ Startup(files[1], files[2])
    /\ borough_filter \in bs
    /\ year_filter \in ys
    /\ vehicle_filter \in vs
    /\ person_filter \in ps

InitReport ==
    /\ \/ ReportCase(WideFiles, Selections(FALSE)[1], Selections(FALSE)[2],
                     Selections(FALSE)[3], Selections(FALSE)[4])
       \/ ReportCase(BulkFiles, Selections(FALSE)[1], Selections(FALSE)[2],
                     Selections(FALSE)[3], {ALL})
       \/ ReportCase(NoFamilyFiles, Selections(TRUE)[1], Selections(TRUE)[2],
                     Selections(TRUE)[3], Selections(TRUE)[4])
    /\ search_input = PyNone
    /\ report = NoReport
    /\ last = NoCall
    /\ threads = Idle

\* one report per page: the first click on Generate Report
FirstReport == last.op = "none" /\ UpdateDashboard

NextReport == FirstReport

SpecReport == InitReport /\ [][NextReport]_vars

-----------------------------------------------------------------------------
(* Properties of a generated report *)

IsReport == last.op = "update_dashboard"

\* the values a normalized selection holds
Elems(sel) == {sel.val[i] : i \in 1..Len(sel.val)}

\* a selection that is ALL alone, and one that names values only
IsAllSel(sel) == sel = PyList(<<ALL>>)
IsConcreteSel(sel) == IsList(sel) /\ Elems(sel) # {} /\ ALL \notin Elems(sel)

\* the cell holds one of the selected values
Holds(cell, sel) == cell # PyNone /\ cell \in Elems(sel)

\* (B is ALL or the row's borough is in B) and (Y is ALL or the row's year
\* is in Y), for the selections of the last report
KeptByBoroughYear(r) ==
    /\ IsAllSel(last.sel[1]) \/ Holds(r["BOROUGH"], last.sel[1])
    /\ IsAllSel(last.sel[2]) \/ Holds(r["YEAR"], last.sel[2])

\* the row is in the filtered table as often as in the table it was
\* filtered from, or not at all
KeptIn(lf, from, r) == r \in Rows(lf) /\ lf.rows[r] = from.rows[r]
DroppedFrom(lf, r) == r \notin Rows(lf)

VehicleHit(r) ==
    \E i \in 1..Len(vehicle_cols) : Holds(r[vehicle_cols[i]], last.sel[3])
AllVehiclesNull(r) ==
    \A i \in 1..Len(vehicle_cols) : r[vehicle_cols[i]] = PyNone

\* a report whose borough and year selections are ALL alone or name values
\* and whose vehicle selection names values
IsVehicleReport ==
    /\ IsReport
    /\ IsAllSel(last.sel[1]) \/ IsConcreteSel(last.sel[1])
    /\ IsAllSel(last.sel[2]) \/ IsConcreteSel(last.sel[2])
    /\ IsConcreteSel(last.sel[3])

\* C3 as stated: for a vehicle selection naming values only, a crash row
\* that the borough and year clauses keep passes the crash filter if and
\* only if one of the detected vehicle-type columns holds a selected value,
\* and a row with no vehicle value passes none -- whatever columns were
\* detected.
C3_VehicleDisjunctionAlways ==
    IsVehicleReport =>
        \A r \in Rows(crash_lazy) :
            /\ KeptByBoroughYear(r) /\ VehicleHit(r)
                   => KeptIn(last.crash_lf, crash_lazy, r)
            /\ ~(KeptByBoroughYear(r) /\ VehicleHit(r))
                   => DroppedFrom(last.crash_lf, r)
            /\ AllVehiclesNull(r) => DroppedFrom(last.crash_lf, r)

\* C3: when at least one vehicle-type column was detected, for a vehicle
\* selection naming values only, a crash row that the borough and year
\* clauses keep passes the crash filter if and only if one of the detected
\* columns holds a selected value; a row whose vehicle-type columns are all
\* null passes no such selection.
C3_VehicleDisjunction ==
    IsVehicleReport /\ vehicle_cols # <<>> =>
        \A r \in Rows(crash_lazy) :
            /\ KeptByBoroughYear(r) /\ VehicleHit(r)
                   => KeptIn(last.crash_lf, crash_lazy, r)
            /\ ~(KeptByBoroughYear(r) /\ VehicleHit(r))
                   => DroppedFrom(last.crash_lf, r)
            /\ AllVehiclesNull(r) => DroppedFrom(last.crash_lf, r)

\* a report where a row passes by its second vehicle column alone, a row
\* with no vehicle value is dropped and a row with another vehicle value
\* is dropped
C3_Witness ==
    /\ IsVehicleReport /\ Len(vehicle_cols) = 2
    /\ IsAllSel(last.sel[1]) /\ IsAllSel(last.sel[2])
    /\ \E r \in Rows(last.crash_lf) :
           r[vehicle_cols[1]] = PyNone /\ Holds(r[vehicle_cols[2]], last.sel[3])
    /\ \E r \in Rows(crash_lazy) \ Rows(last.crash_lf) : AllVehiclesNull(r)
    /\ \E r \in Rows(crash_lazy) \ Rows(last.crash_lf) : ~AllVehiclesNull(r)

\* C4: for borough and year selections that are ALL or name values, no
\* row of the filtered crash table and none of the filtered person table
\* fails (B is ALL or borough in B) and (Y is ALL or year in Y); and with no
\* vehicle and no person predicate, the rows kept of either table are
\* exactly the rows that satisfy it.
C4_SameBoroughYearPredicate ==
    /\ IsReport
    /\ IsAllSel(last.sel[1]) \/ IsConcreteSel(last.sel[1])
    /\ IsAllSel(last.sel[2]) \/ IsConcreteSel(last.sel[2])
    => /\ \A r \in Rows(crash_lazy) :
              IF KeptByBoroughYear(r)
              THEN IsAllSel(last.sel[3])
                       => KeptIn(last.crash_lf, crash_lazy, r)
              ELSE DroppedFrom(last.crash_lf, r)
       /\ \A r \in Rows(person_lazy) :
              IF KeptByBoroughYear(r)
              THEN IsAllSel(last.sel[4])
                       => KeptIn(last.person_lf, person_lazy, r)
              ELSE DroppedFrom(last.person_lf, r)

\* a report for one borough and one year that keeps some and drops some
\* rows of both tables, a row without borough among the dropped
C4_Witness ==
    /\ IsReport
    /\ IsConcreteSel(last.sel[1]) /\ IsConcreteSel(last.sel[2])
    /\ IsAllSel(last.sel[3]) /\ IsAllSel(last.sel[4])
    /\ Rows(last.crash_lf) # {} /\ Rows(last.person_lf) # {}
    /\ \E r \in Rows(crash_lazy) \ Rows(last.crash_lf) :
           r["BOROUGH"] = PyNone
    /\ \E r \in Rows(person_lazy) \ Rows(last.person_lf) :
           Holds(r["BOROUGH"], last.sel[1])

AllDimensionsAll == \A d \in 1..4 : IsAllSel(last.sel[d])

\* C5: when every dimension is ALL, the filtered crash and person tables
\* are the year-bounded tables themselves and the summary's crash count is
\* the row count of the year-bounded crash table.
C5_AllAddsNoPredicate ==
    IsReport /\ AllDimensionsAll =>
        /\ last.crash_lf = crash_lazy
        /\ last.person_lf = person_lazy
        /\ report.total_crashes = crash_count
        /\ report.total_crashes = BagCardinality(crash_lazy.rows)

\* an all-ALL report over tables with rows without borough and without
\* vehicle values, reached from an absent and an empty selection
C5_Witness ==
    /\ IsReport /\ AllDimensionsAll
    /\ last.args[1] = PyNone /\ last.args[3] = PyList(<<>>)
    /\ report.total_crashes > 2
    /\ \E r \in Rows(last.crash_lf) : r["BOROUGH"] = PyNone
    /\ \E r \in Rows(last.person_lf) : r["BOROUGH"] = PyNone


\* the raw value means "nothing chosen": the sentinel, None, an empty list
\* or an empty text
IsSentinelOrEmpty(raw) ==
    raw = ALL \/ raw = PyNone \/ raw = PyList(<<>>) \/ raw = PyStr(<<>>)

\* C6: each of the four raw selections is normalized by itself: the
\* sentinel, an empty value and None become ALL; any other scalar becomes
\* the one-element selection of that value; a non-empty sequence is kept
\* with its elements.
C6_Normalization ==
    IsReport =>
        \A d \in 1..4 :
            LET raw == last.args[d]
                sel == last.sel[d]
            IN  /\ IsList(sel)
                /\ IsSentinelOrEmpty(raw) => IsAllSel(sel)
                /\ ~IsSentinelOrEmpty(raw) /\ ~IsList(raw)
                       => Len(sel.val) = 1 /\ sel.val[1] = raw
                /\ ~IsSentinelOrEmpty(raw) /\ IsList(raw) => sel = raw

\* a report from a None, a scalar, a two-element list and an empty list
C6_Witness ==
    /\ IsReport
    /\ last.args[1] = PyNone /\ IsAllSel(last.sel[1])
    /\ last.args[2] = PyInt(2019) /\ last.sel[2] = PyList(<<PyInt(2019)>>)
    /\ last.args[3] = PyList(<<Sedan, Truck>>) /\ Len(last.sel[3].val) = 2
    /\ last.args[4] = PyList(<<>>) /\ IsAllSel(last.sel[4])

\* the catalog of the d-th dimension
Catalog(d) ==
    CASE d = 1 -> SeqRange(boroughs)
      [] d = 2 -> SeqRange(years)
      [] d = 3 -> SeqRange(vehicle_types)
      [] d = 4 -> SeqRange(person_types)

\* neither the sentinel, nor a known catalog value, nor a list of known
\* catalog values
IsMalformed(raw, d) ==
    /\ raw # ALL
    /\ raw \notin Catalog(d)
    /\ ~(IsList(raw) /\ Elems(raw) \subseteq Catalog(d))

\* C7: a malformed raw selection is treated as ALL on its dimension (the
\* normalized selection holds the sentinel, so no predicate is built from
\* the value) and the report is produced.
C7_MalformedBecomesAll ==
    IsReport =>
        \A d \in 1..4 :
            IsMalformed(last.args[d], d) =>
                report.status = "ok" /\ ALL \in Elems(last.sel[d])

\* the crash rows of the last report that have both coordinates
WithCoordinates ==
    Restrict(last.crash_lf.rows,
             {r \in Rows(last.crash_lf) :
                 r["LATITUDE"] # PyNone /\ r["LONGITUDE"] # PyNone})

\* the rows shown on the map
MapRows ==
    IF report.map.kind = "scatter_mapbox" THEN report.map.map_df
    ELSE EmptyBag

\* C10: the map's sample holds exactly min(2000, c) rows, c the number of
\* filtered crash rows with both coordinates; every row of the sample has
\* both coordinates and is a filtered row, and no filtered row is in the
\* sample more often than in the filtered table.
C10_MapSample ==
    IsReport =>
        LET c == BagCardinality(WithCoordinates)
            shown == MapBag(WithCoordinates,
                            [r \in DOMAIN WithCoordinates |->
                                [n \in SeqRange(MapColumns) |-> r[n]]])
        IN  /\ BagCardinality(MapRows) = IF c < 2000 THEN c ELSE 2000
            /\ MapRows \sqsubseteq shown
            /\ \A r \in DOMAIN MapRows :
                   r["LATITUDE"] # PyNone /\ r["LONGITUDE"] # PyNone

\* a report with more than 2000 rows with coordinates, some rows without,
\* and a map of 2000 that leaves a filtered row out
C10_Witness ==
    /\ IsReport
    /\ BagCardinality(WithCoordinates) > 2000
    /\ BagCardinality(WithCoordinates) < BagCardinality(last.crash_lf.rows)
    /\ BagCardinality(MapRows) = 2000
    /\ \E r \in DOMAIN MapRows : CopiesIn(r, MapRows) > 1


-----------------------------------------------------------------------------
(* Properties of the eleven outputs *)

InYearRange(cell) == cell # PyNone /\ cell.val >= 2015 /\ cell.val <= 2025

\* the rows of a file whose crash date is a date of the years 2015..2025
RowsInRange(csv) ==
    Restrict(csv.rows,
             {r \in Rows(csv) : InYearRange(DtYear(StrToDate(r["CRASH DATE"])))})

\* the rows a view's groups count in all
RECURSIVE ViewTotal(_)
ViewTotal(rows) ==
    IF rows = <<>> THEN 0 ELSE Head(rows).count + ViewTotal(Tail(rows))

\* the keys of a view's groups
ViewKeys(rows) == {rows[i].key : i \in 1..Len(rows)}

\* the rows of a view that may be the annotation
RowsOf(view) == IF view.kind = "annotation" THEN <<>> ELSE view.rows

\* the crashes the cells of the heatmap count in all
HeatTotal ==
    BagCardinality([k \in DOMAIN report.heatmap.cells |->
                       report.heatmap.cells[k]])

\* C11: both tables hold only rows of the years 2015..2025, and so does
\* the year catalog; a report counts no more crashes than the crash file
\* has rows of these years, in the summary and in every view, its temporal
\* view has no year outside the range, and its person views count no more
\* rows than the person file has of these years.
C11_YearBound ==
    /\ \A r \in Rows(crash_lazy) \cup Rows(person_lazy) :
           InYearRange(r["YEAR"])
    /\ \A i \in 1..Len(years) : InYearRange(years[i])
    /\ IsReport =>
        LET crashes == BagCardinality(RowsInRange(crash_csv))
            persons == BagCardinality(RowsInRange(person_csv))
        IN  /\ report.total_crashes <= crashes
            /\ \A r \in Rows(last.crash_lf) \cup Rows(last.person_lf) :
                   InYearRange(r["YEAR"])
            /\ \A k \in ViewKeys(report.temporal.rows) : InYearRange(k)
            /\ ViewTotal(report.temporal.rows) <= crashes
            /\ ViewTotal(report.borough.rows) <= crashes
            /\ ViewTotal(report.hour.rows) <= crashes
            /\ ViewTotal(report.seasonal.rows) <= crashes
            /\ ViewTotal(RowsOf(report.factors)) <= crashes
            /\ ViewTotal(RowsOf(report.vehicle)) <= crashes
            /\ HeatTotal <= crashes
            /\ BagCardinality(MapRows) <= crashes
            /\ ViewTotal(RowsOf(report.victim)) <= persons
            /\ report.age.kind = "histogram"
                   => BagCardinality(report.age.ages) <= persons

\* an all-ALL report over files with rows of 2014 and 2026 and rows of the
\* first and the last year of the range, which counts every row in range
C11_Witness ==
    /\ IsReport /\ AllDimensionsAll
    /\ \E r \in Rows(crash_csv) : DtYear(StrToDate(r["CRASH DATE"])) = PyInt(2014)
    /\ \E r \in Rows(crash_csv) : DtYear(StrToDate(r["CRASH DATE"])) = PyInt(2026)
    /\ \E r \in Rows(person_csv) : DtYear(StrToDate(r["CRASH DATE"])) = PyInt(2026)
    /\ {PyInt(2015), PyInt(2025)} \subseteq ViewKeys(report.temporal.rows)
    /\ report.total_crashes = BagCardinality(RowsInRange(crash_csv))
    /\ ViewTotal(report.temporal.rows) = report.total_crashes
    /\ ViewTotal(report.victim.rows) = BagCardinality(RowsInRange(person_csv))

\* the rows of the crash file whose date text is no date
Unparseable ==
    Restrict(crash_csv.rows,
             {r \in Rows(crash_csv) :
                 r["CRASH DATE"] # PyNone /\ StrToDate(r["CRASH DATE"]) = PyNone})

\* C12: in an all-ALL report, the crash rows whose date cannot be parsed
\* are counted, with the rows of the years 2015..2025, in the summary, the
\* borough, factors and vehicle views and the map's rows with coordinates,
\* and are left out of the temporal, seasonal and heatmap views only.
C12_UnparseableDateCounted ==
    IsReport /\ AllDimensionsAll =>
        LET dated == BagCardinality(RowsInRange(crash_csv))
            undated == BagCardinality(Unparseable)
        IN  /\ report.total_crashes = dated + undated
            /\ report.total_injuries >= 0 /\ report.total_deaths >= 0
            /\ ViewTotal(report.borough.rows) = dated + undated
            /\ report.factors.kind = "bar" /\ Len(report.factors.rows) < FACTORS_LIMIT
                   => ViewTotal(report.factors.rows) = dated + undated
            /\ report.vehicle.kind = "bar" /\ Len(report.vehicle.rows) < VEHICLE_LIMIT
                   => ViewTotal(report.vehicle.rows) = dated + undated
            /\ ViewTotal(report.temporal.rows) = dated
            /\ ViewTotal(report.seasonal.rows) = dated
            /\ HeatTotal = dated


-----------------------------------------------------------------------------
(* Reports before and after the worker starts again: the same page, the
   same rows, with and without the column families of app.py:132-136,
   787, 809-813 and 998 *)

Letters == <<"A", "B", "C", "D", "E", "F", "G", "H", "I", "J", "K">>
VehicleKind(i) == PyStr(<<"V", Letters[i]>>)
FactorKind(i) == PyStr(<<"F", Letters[i]>>)
PersonKind(i) == PyStr(<<"P", Letters[i]>>)

FamilyCrashRows ==
    (CrashRow(Date2019, BRONX, Lat, Lon, Sedan, PyNone) :> 2) @@
    (CrashRow(Date2020, QUEENS, Lat, Lon, Truck, Sedan) :> 1) @@
    (CrashRow(Date2020, BRONX, Lat, PyNone, PyNone, PyNone) :> 1)

FamilyPersonRows ==
    (PersonRow(Date2019, BRONX, Pedestrian, PyInt(30)) :> 2) @@
    (PersonRow(Date2020, QUEENS, Bicyclist, PyInt(0)) :> 1) @@
    (PersonRow(Date2020, BRONX, Occupant, PyNone) :> 1) @@
    (PersonRow(Date2019, BRONX, Occupant, PyInt(1)) :> 1) @@
    (PersonRow(Date2019, QUEENS, Bicyclist, PyInt(119)) :> 1) @@
    (PersonRow(Date2020, BRONX, Occupant, PyInt(120)) :> 1) @@
    (PersonRow(Date2020, QUEENS, Bicyclist, PyInt(-1)) :> 1)

\* more categories than a view keeps, with equal counts where the view is
\* cut, and rows without a category
RankedCounts == <<10, 9, 8, 7, 6, 5, 4, 3, 2, 2, 2>>
RankedCrashRows ==
    [r \in {[CrashRow(Date2019, BRONX, Lat, Lon, VehicleKind(i), PyNone)
                EXCEPT !["CONTRIBUTING FACTOR VEHICLE 1"] = FactorKind(i)] :
               i \in 1..Len(RankedCounts)} |->
        RankedCounts[CHOOSE i \in 1..Len(RankedCounts) :
                        r["VEHICLE TYPE CODE 1"] = VehicleKind(i)]] @@
    ([CrashRow(Date2019, BRONX, Lat, Lon, PyNone, PyNone)
         EXCEPT !["CONTRIBUTING FACTOR VEHICLE 1"] = PyNone] :> 11)

RankedPersonCounts == <<6, 5, 4, 2, 2, 1>>
RankedPersonRows ==
    [r \in {PersonRow(Date2019, BRONX, PersonKind(i), PyInt(30)) :
               i \in 1..Len(RankedPersonCounts)} |->
        RankedPersonCounts[CHOOSE i \in 1..Len(RankedPersonCounts) :
                              r["PERSON_TYPE"] = PersonKind(i)]] @@
    (PersonRow(Date2019, BRONX, PyNone, PyInt(30)) :> 7)

FamilyFiles ==
    <<Frame(CrashSchema, FamilyCrashRows),
      Frame(PersonSchema, FamilyPersonRows)>>

RankedFiles ==
    <<Frame(CrashSchema, RankedCrashRows),
      Frame(PersonSchema, RankedPersonRows)>>

\* the columns of a family
Families == {"vehicle", "factor", "person_type", "person_age"}
InFamily(name, family) ==
    CASE family = "vehicle" -> IsVehicleTypeCol(name)
      [] family = "factor" -> IsFactorCol(name)
      [] family = "person_type" -> name = "PERSON_TYPE"
      [] family = "person_age" -> name = "PERSON_AGE"

\* the file without the columns of the families in `absent`
Without(file, absent) ==
    LET Kept(name) == \A family \in absent : ~InFamily(name, family)
    IN  Frame(SelectSeq(file.schema, Kept), file.rows)

InitFamilies ==
    /\ \/ ReportCase(FamilyFiles, {ALL, BRONX}, {ALL, PyInt(2019)},
                     {ALL, Sedan, UNKNOWN_TEXT}, {ALL, Pedestrian})
       \/ ReportCase(RankedFiles, {ALL}, {ALL}, {ALL}, {ALL})
    /\ search_input = PyNone
    /\ report = NoReport
    /\ last = NoCall
    /\ threads = Idle

\* Generate Report is clicked, a first and a second time
Generate ==
    /\ last.op = "update_dashboard" => last.prev.report = NoReport
    /\ UpdateDashboard

\* between the two clicks the worker starts again on files that lost some
\* of the families and kept their rows
RestartWithout ==
    /\ last.op = "update_dashboard"
    /\ last.prev.report = NoReport
    /\ last.args = <<borough_filter, year_filter, vehicle_filter,
                     person_filter>>
    /\ crash_csv.schema = CrashSchema
    /\ person_csv.schema = PersonSchema
    /\ \E absent \in (SUBSET Families) \ {{}} :
          Restart(Without(crash_csv, absent), Without(person_csv, absent))

\* between the two clicks the user picks another vehicle type or another
\* person type
PickAgain ==
    /\ last.op = "update_dashboard"
    /\ last.prev.report = NoReport
    /\ last.args = <<borough_filter, year_filter, vehicle_filter,
                     person_filter>>
    /\ last.schemas = <<crash_csv.schema, person_csv.schema>>
    /\ \/ /\ vehicle_filter' \in {ALL, Sedan, UNKNOWN_TEXT} \ {vehicle_filter}
          /\ UNCHANGED person_filter
       \/ /\ person_filter' \in {ALL, Pedestrian} \ {person_filter}
          /\ UNCHANGED vehicle_filter
    /\ UNCHANGED <<threads, globals, borough_filter, year_filter,
                   search_input, report, last>>

NextFamilies == Generate \/ RestartWithout \/ PickAgain

SpecFamilies == InitFamilies /\ [][NextFamilies]_vars

\* the families the server that made the last report found no column of
Absent ==
    {family \in Families :
        \A k \in 1..2 : \A i \in 1..Len(last.schemas[k]) :
            ~InFamily(last.schemas[k][i], family)}

NotAvailable(view) ==
    /\ view.kind = "annotation"
    /\ view.text \in {"Vehicle type data not available",
                      "Contributing factor data not available",
                      "Person type data not available",
                      "Age data not available"}

\* the tuple of eleven outputs, its views saying "not available" for the
\* absent families and for no other
ElevenOutputs ==
    /\ report.status = "ok"
    /\ DOMAIN report = {"status", "total_crashes", "total_injuries",
                        "total_deaths", "temporal", "borough", "hour",
                        "victim", "factors", "vehicle", "map", "seasonal",
                        "heatmap", "age"}
    /\ NotAvailable(report.vehicle) <=> "vehicle" \in Absent
    /\ NotAvailable(report.factors) <=> "factor" \in Absent
    /\ NotAvailable(report.victim) <=> "person_type" \in Absent
    /\ NotAvailable(report.age) <=> "person_age" \in Absent
    /\ \A name \in {"temporal", "borough", "hour", "map", "seasonal",
                    "heatmap"} : ~NotAvailable(report[name])

\* two grouped views that differ at most in the order of their rows
SameRows(a, b) ==
    /\ a.kind = b.kind
    /\ a.kind # "annotation" => SeqRange(a.rows) = SeqRange(b.rows)

\* two top-N views: the same counts in the same order, and the same keys
\* above the smallest count shown
Settled(rows) ==
    {rows[i] : i \in {j \in 1..Len(rows) :
                         rows[j].count > rows[Len(rows)].count}}
SameTop(a, b) ==
    /\ a.kind = b.kind
    /\ a.kind # "annotation" =>
          /\ Len(a.rows) = Len(b.rows)
          /\ \A i \in 1..Len(a.rows) : a.rows[i].count = b.rows[i].count
          /\ Settled(a.rows) = Settled(b.rows)

\* two maps of as many points
SameMap(a, b) ==
    /\ a.kind = b.kind
    /\ a.kind = "scatter_mapbox" =>
          a.map_count = b.map_count /\ a.sample_n = b.sample_n

\* the second report, made without some families, against the first one,
\* made with all of them: the summary and the views of the families that
\* are still there
AsWithFamilies(old, new) ==
    /\ new.total_crashes = old.total_crashes
    /\ new.total_injuries = old.total_injuries
    /\ new.total_deaths = old.total_deaths
    /\ new.temporal = old.temporal
    /\ SameRows(old.borough, new.borough)
    /\ new.hour = old.hour
    /\ SameMap(old.map, new.map)
    /\ new.seasonal = old.seasonal
    /\ new.heatmap = old.heatmap
    /\ "vehicle" \notin Absent => SameTop(old.vehicle, new.vehicle)
    /\ "factor" \notin Absent => SameTop(old.factors, new.factors)
    /\ "person_type" \notin Absent => SameTop(old.victim, new.victim)
    /\ "person_age" \notin Absent => new.age = old.age

\* a second report, after a first one made with every family
IsSecondReport ==
    /\ IsReport
    /\ last.prev.report # NoReport
    /\ last.prev.args = last.args
    /\ last.prev.schemas = <<CrashSchema, PersonSchema>>

\* the selection of every absent family that a filter reads is ALL
AbsentUnselected ==
    /\ "vehicle" \in Absent => IsAllSel(last.sel[3])
    /\ "person_type" \in Absent => IsAllSel(last.sel[4])

\* C13 as stated: with any families absent a report has its eleven
\* outputs, "not available" in exactly the views of the absent families,
\* and the summary and the other views as with the families present
C13_AbsentFamiliesAlways ==
    IsReport =>
        /\ ElevenOutputs
        /\ IsSecondReport => AsWithFamilies(last.prev.report, report)

\* C13, amended: with any families absent a report has its eleven
\* outputs, "not available" in exactly the views of the absent families;
\* the summary and the other views are as with the families present when
\* the vehicle selection is ALL if the vehicle columns are absent and the
\* person selection is ALL if PERSON_TYPE is absent
C13_AbsentFamilies ==
    IsReport =>
        /\ ElevenOutputs
        /\ IsSecondReport /\ AbsentUnselected =>
              AsWithFamilies(last.prev.report, report)

C13_Witness ==
    /\ IsSecondReport
    /\ AbsentUnselected
    /\ Absent = Families
    /\ report.total_crashes > 0
    /\ ~IsAllSel(last.sel[1])

\* the borough selection or the year selection names values, and no row
\* of the table holds one of them
NoMatch(lf) ==
    \/ /\ ALL \notin Elems(last.sel[1])
       /\ \A r \in Rows(lf) : ~Holds(r["BOROUGH"], last.sel[1])
    \/ /\ ALL \notin Elems(last.sel[2])
       /\ \A r \in Rows(lf) : ~Holds(r["YEAR"], last.sel[2])

\* a view without rows
IsEmptyView(view) ==
    CASE view.kind = "heatmap" -> DOMAIN view.cells = {}
      [] view.kind = "histogram" -> view.ages = EmptyBag
      [] view.kind = "annotation" -> NotAvailable(view)
      [] OTHER -> view.rows = <<>>

\* C14: a report whose selections match no crash row and no person row
\* has its eleven outputs: the three totals are 0, every grouped view is
\* empty and the map is the figure saying there is no location data
C14_NothingMatches ==
    IsReport /\ NoMatch(crash_lazy) /\ NoMatch(person_lazy) =>
        /\ ElevenOutputs
        /\ report.total_crashes = 0
        /\ report.total_injuries = 0
        /\ report.total_deaths = 0
        /\ \A name \in {"temporal", "borough", "hour", "victim", "factors",
                        "vehicle", "seasonal", "heatmap", "age"} :
              IsEmptyView(report[name])
        /\ report.map =
              Annotation("No location data available for selected filters")

C14_Witness ==
    /\ IsReport
    /\ NoMatch(crash_lazy)
    /\ NoMatch(person_lazy)
    /\ crash_count > 0
    /\ person_count > 0
    /\ report.victim.kind = "pie"
    /\ report.total_injuries = 0


\* a second report for the same selections over the same tables
IsRepeat ==
    /\ IsReport
    /\ last.prev.report # NoReport
    /\ last.prev.schemas = last.schemas
    /\ last.prev.args = last.args

\* C15: a report generated again with the same selections over unchanged
\* tables has the same summary and the same views, keys, counts and order
\* of rows included, also where a view is cut among equal counts; of the
\* map only the size of the sample is the same
C15_SameReportAgain ==
    IsRepeat =>
        /\ \A name \in DOMAIN report \ {"map"} :
              report[name] = last.prev.report[name]
        /\ SameMap(last.prev.report.map, report.map)


-----------------------------------------------------------------------------
(* Concurrent requests: the worker's two threads (gunicorn_config.py:3-7)
   run handle_search and update_dashboard step by step, each call with its
   own locals, all of them reading the module's tables and catalogs *)

ThreadTexts ==
    {PyStr(ToLower(BRONX.val)),
     PyStr(ToLower(QUEENS.val) \o StrOfInt(2019) \o kw_cyclist)}

InitThreads ==
    /\ ReportCase(FamilyFiles, {ALL}, {ALL}, {ALL, Sedan}, {ALL})
    /\ search_input = PyNone
    /\ report = NoReport
    /\ last = NoCall
    /\ threads = Idle

InFlight(t) == threads[t].pc \notin {"idle", "done"}

\* the call frame that holds the locals of the request of thread t
Slot_shared(t) == 1
Slot(t) == t

\* the requests the page can send: a search, a click on Clear, a click on
\* Generate Report, with the values the page shows
Requests ==
    {[kind |-> "search", triggered |-> <<"search-input">>, search_query |-> q,
      current |-> <<borough_filter, year_filter, person_filter>>] :
        q \in ThreadTexts}
    \cup {[kind |-> "search", triggered |-> <<"clear-search-btn">>,
           search_query |-> search_input,
           current |-> <<borough_filter, year_filter, person_filter>>]}
    \cup {[kind |-> "generate",
           args |-> <<borough_filter, year_filter, vehicle_filter,
                      person_filter>>]}

\* a free thread takes a request
Receive(t) ==
    /\ threads[t].pc = "idle"
    /\ \E req \in Requests :
          threads' =
              [u \in 1..THREADS |->
                  IF u = t
                  THEN [threads[t] EXCEPT
                           !.pc = "received", !.req = req,
                           !.overlap = \E v \in 1..THREADS \ {t} : InFlight(v)]
                  ELSE IF InFlight(u)
                       THEN [threads[u] EXCEPT !.overlap = TRUE]
                       ELSE threads[u]]
    /\ UNCHANGED <<globals, widgets, report, last>>

\* handle_search, lines 596-615
SearchStep(t) ==
    /\ threads[t].pc = "received"
    /\ threads[t].req.kind = "search"
    /\ threads' =
          [threads EXCEPT
              ![t].pc = "computed",
              ![t].response =
                  handle_search(threads[t].req.triggered,
                                threads[t].req.search_query,
                                threads[t].req.current[1],
                                threads[t].req.current[2],
                                threads[t].req.current[3])]
    /\ UNCHANGED <<globals, widgets, report, last>>

\* update_dashboard, lines 642-660
NormalizeStep(t) ==
    /\ threads[t].pc = "received"
    /\ threads[t].req.kind = "generate"
    /\ threads' =
          [threads EXCEPT
              ![t].pc = "normalized",
              ![Slot(t)].loc.sel =
                  <<NormalizeBoroughs(threads[t].req.args[1]),
                    NormalizeYears(threads[t].req.args[2]),
                    NormalizeVehicles(threads[t].req.args[3]),
                    NormalizePersons(threads[t].req.args[4])>>]
    /\ UNCHANGED <<globals, widgets, report, last>>

\* update_dashboard, line 663
FilterCrashStep(t) ==
    /\ threads[t].pc = "normalized"
    /\ \E sel \in {threads[Slot(t)].loc.sel} :
          threads' =
              [threads EXCEPT
                  ![t].pc = "crash_filtered",
                  ![Slot(t)].loc.crash_lf =
                      filter_crash_lazy(sel[1], sel[2], sel[3])]
    /\ UNCHANGED <<globals, widgets, report, last>>

\* update_dashboard, line 664
FilterPersonStep(t) ==
    /\ threads[t].pc = "crash_filtered"
    /\ \E sel \in {threads[Slot(t)].loc.sel} :
          threads' =
              [threads EXCEPT
                  ![t].pc = "filtered",
                  ![Slot(t)].loc.person_lf =
                      filter_person_lazy(sel[1], sel[2], sel[4])]
    /\ UNCHANGED <<globals, widgets, report, last>>

\* update_dashboard, lines 667-1036
OutputsStep(t) ==
    /\ threads[t].pc = "filtered"
    /\ \E out \in Outputs(threads[Slot(t)].loc.crash_lf,
                          threads[Slot(t)].loc.person_lf) :
          threads' = [threads EXCEPT ![t].pc = "computed",
                                     ![t].response = out]
    /\ UNCHANGED <<globals, widgets, report, last>>

\* the response reaches the page: the dropdowns of a search, the figures
\* of a report
Respond(t) ==
    /\ threads[t].pc = "computed"
    /\ threads' = [threads EXCEPT ![t].pc = "done"]
    /\ IF threads[t].req.kind = "search"
       THEN /\ borough_filter' = threads[t].response[1]
            /\ year_filter' = threads[t].response[2]
            /\ person_filter' = threads[t].response[3]
            /\ UNCHANGED <<vehicle_filter, search_input, report>>
       ELSE /\ report' = threads[t].response
            /\ UNCHANGED widgets
    /\ UNCHANGED <<globals, last>>

NextThreads ==
    \/ \E t \in 1..THREADS :
          \/ Receive(t)
          \/ SearchStep(t)
          \/ NormalizeStep(t)
          \/ FilterCrashStep(t)
          \/ FilterPersonStep(t)
          \/ OutputsStep(t)
          \/ Respond(t)
    \/ SelectBorough

SpecThreads == InitThreads /\ [][NextThreads]_vars

\* what the request returns when no other request is in flight
Alone(req) ==
    IF req.kind = "search"
    THEN {handle_search(req.triggered, req.search_query, req.current[1],
                        req.current[2], req.current[3])}
    ELSE Outputs(filter_crash_lazy(NormalizeBoroughs(req.args[1]),
                                   NormalizeYears(req.args[2]),
                                   NormalizeVehicles(req.args[3])),
                 filter_person_lazy(NormalizeBoroughs(req.args[1]),
                                    NormalizeYears(req.args[2]),
                                    NormalizePersons(req.args[4])))

Answered(t) == threads[t].pc \in {"computed", "done"}

\* C16: however the steps of two requests interleave, no step changes the
\* tables, the vehicle columns or the catalogs, and the response of every
\* request is one the request gives when it runs alone
C16_RequestsIsolated ==
    /\ [](\A t \in 1..THREADS :
             Answered(t) => threads[t].response \in Alone(threads[t].req))
    /\ [][UNCHANGED globals]_vars

C16_Witness ==
    /\ \A t \in 1..THREADS : threads[t].pc = "done" /\ threads[t].overlap
    /\ threads[1].req.kind = "generate"
    /\ threads[2].req.kind = "generate"
    /\ threads[1].req.args # threads[2].req.args
    /\ threads[1].response.total_crashes # threads[2].response.total_crashes


\* the person row passes the borough, year and person filters of the last
\* report (the person filter is applied when the table has PERSON_TYPE)
PersonKept(r) ==
    /\ KeptByBoroughYear(r)
    /\ \/ IsAllSel(last.sel[4])
       \/ ~HasColumn(person_lazy, "PERSON_TYPE")
       \/ Holds(r["PERSON_TYPE"], last.sel[4])

\* the person rows of that age that pass the filters
KeptOfAge(age) ==
    Restrict(person_lazy.rows,
             {r \in Rows(person_lazy) : PersonKept(r) /\ r["PERSON_AGE"] = age})

\* a report made by the running server that has an age histogram
IsAgeReport ==
    /\ IsReport
    /\ last.schemas = <<crash_csv.schema, person_csv.schema>>
    /\ report.age.kind = "histogram"

\* C17: every age of the age view is above 0 and below 120, and is there
\* once for each person row of that age that passes the borough, year and
\* person filters
C17_AgesInRange ==
    IsAgeReport =>
        \A a \in DOMAIN report.age.ages :
            /\ a["PERSON_AGE"].tag = "int"
            /\ AGE_MIN < a["PERSON_AGE"].val
            /\ a["PERSON_AGE"].val < AGE_MAX
            /\ report.age.ages[a] = BagCardinality(KeptOfAge(a["PERSON_AGE"]))

C17_Witness ==
    /\ IsAgeReport
    /\ {a["PERSON_AGE"].val : a \in DOMAIN report.age.ages} = {1, 30, 119}
    /\ \E r \in Rows(last.person_lf) : r["PERSON_AGE"] = PyInt(120)
    /\ \E r \in Rows(last.person_lf) : r["PERSON_AGE"] = PyInt(0)
    /\ \E r \in Rows(last.person_lf) : r["PERSON_AGE"] = PyNone


-----------------------------------------------------------------------------
(* The module code of app.py:66-162, statement by statement, on a crash
   file of one row *)

\* the text of the 15th of a month
DateText(year, month) ==
    PyStr(StrOfInt(year) \o <<"-">>
          \o (IF month < 10 THEN <<"0">> ELSE <<>>) \o StrOfNat(month)
          \o <<"-", "1", "5">>)

LoadDates ==
    {DateText(y, m) : y \in {2014, 2019}, m \in 1..12} \cup {DateBad, PyNone}

\* after the two scan_csv calls: the tables are the files, the other names
\* are not bound yet
InitLoad ==
    /\ \E d \in LoadDates :
          crash_csv = Frame(CrashSchema,
                            SetToBag({CrashRow(d, BRONX, Lat, Lon, Sedan,
                                               PyNone)}))
    /\ person_csv = FamilyFiles[2]
    /\ crash_lazy = crash_csv
    /\ person_lazy = person_csv
    /\ crash_count = 0
    /\ person_count = 0
    /\ boroughs = <<>>
    /\ years = <<>>
    /\ vehicle_cols = <<>>
    /\ vehicle_types = <<>>
    /\ person_types = <<>>
    /\ borough_filter = ALL
    /\ year_filter = ALL
    /\ vehicle_filter = ALL
    /\ person_filter = ALL
    /\ search_input = PyNone
    /\ report = NoReport
    /\ last = [op |-> "startup", line |-> 67]
    /\ threads = Idle

\* the statement that ends at line `to` runs after the one ending at `from`
LoadStep(from, to, lf) ==
    /\ last.op = "startup"
    /\ last.line = from
    /\ crash_lazy' = lf
    /\ last' = [op |-> "startup", line |-> to]

LoadParse ==
    /\ LoadStep(67, 77, AddParsedColumns(crash_lazy))
    /\ UNCHANGED <<crash_csv, person_csv, person_lazy, crash_count,
                   person_count, boroughs, years, vehicle_cols,
                   vehicle_types, person_types, widgets, report, threads>>

LoadDateParts ==
    /\ LoadStep(77, 85, AddDateParts(crash_lazy))
    /\ UNCHANGED <<crash_csv, person_csv, person_lazy, crash_count,
                   person_count, boroughs, years, vehicle_cols,
                   vehicle_types, person_types, widgets, report, threads>>

LoadSeason ==
    /\ LoadStep(85, 97, AddSeason(crash_lazy))
    /\ UNCHANGED <<crash_csv, person_csv, person_lazy, crash_count,
                   person_count, boroughs, years, vehicle_cols,
                   vehicle_types, person_types, widgets, report, threads>>

LoadFilter ==
    /\ LoadStep(97, 98, FilterYears(crash_lazy))
    /\ UNCHANGED <<crash_csv, person_csv, person_lazy, crash_count,
                   person_count, boroughs, years, vehicle_cols,
                   vehicle_types, person_types, widgets, report, threads>>

\* lines 101-162: the person table, the counts, the catalogs
LoadRest ==
    /\ LoadStep(98, 162, crash_lazy)
    /\ person_lazy' = PreparePerson(person_csv)
    /\ crash_count' = Count(crash_lazy)
    /\ person_count' = Count(person_lazy')
    /\ boroughs' = SortedList(UniqueNonNull(crash_lazy, "BOROUGH"))
    /\ years' = SortedList(UniqueNonNull(crash_lazy, "YEAR"))
    /\ vehicle_cols' = SelectSeq(Names(crash_lazy), IsVehicleTypeCol)
    /\ vehicle_types' \in VehicleTypeCatalogs(crash_lazy, vehicle_cols')
    /\ person_types' = PersonTypeCatalog(person_lazy')
    /\ UNCHANGED <<crash_csv, person_csv, widgets, report, threads>>

NextLoad == LoadParse \/ LoadDateParts \/ LoadSeason \/ LoadFilter \/ LoadRest

SpecLoad == InitLoad /\ [][NextLoad]_vars

\* the season of each month
SeasonTable ==
    [m \in 1..12 |->
        CASE m \in {12, 1, 2} -> Winter
          [] m \in {3, 4, 5} -> Spring
          [] m \in {6, 7, 8} -> Summer
          [] m \in {9, 10, 11} -> Fall]

HasSeason == last.op = "startup" /\ HasColumn(crash_lazy, "SEASON")

\* C18: once the SEASON column is there, a row of month 12, 1 or 2 has
\* season Winter, of month 3 to 5 Spring, of month 6 to 8 Summer, of month
\* 9 to 11 Fall, and a row without a month has no season
C18_SeasonOfMonth ==
    HasSeason =>
        \A r \in Rows(crash_lazy) :
            IF r["MONTH"] = PyNone
            THEN r["SEASON"] = PyNone
            ELSE /\ r["MONTH"].val \in 1..12
                 /\ r["SEASON"] = SeasonTable[r["MONTH"].val]

C18_Witness ==
    /\ HasSeason
    /\ last.line = 162
    /\ \E r \in Rows(crash_lazy) :
          r["MONTH"] = PyInt(12) /\ r["SEASON"] = Winter


\* the keys a grouped view shows
ShownKeys(view) ==
    IF view.kind = "annotation" THEN {}
    ELSE {view.rows[i].key : i \in 1..Len(view.rows)}

\* C19: in no report does the borough view, the factors view or the
\* vehicle view show a group whose key is null
C19_NoNullKey ==
    IsReport =>
        \A name \in {"borough", "factors", "vehicle"} :
            PyNone \notin ShownKeys(report[name])


\* a report made by the running server
IsCurrentReport ==
    IsReport /\ last.schemas = <<crash_csv.schema, person_csv.schema>>

\* the rows of the table whose column `name` holds the key
Tally(lf, name, key) ==
    BagCardinality(Restrict(lf.rows, {r \in Rows(lf) : r[name] = key}))

\* the view shows at most n groups of the column, largest count first,
\* each with the number of rows of the table that hold its key, and no
\* group it leaves out is larger than one it shows
IsTopOf(view, lf, name, n) ==
    view.kind # "annotation" =>
        /\ Len(view.rows) <= n
        /\ \A i, j \in 1..Len(view.rows) :
              /\ i < j => view.rows[i].count >= view.rows[j].count
              /\ i # j => view.rows[i].key # view.rows[j].key
        /\ \A i \in 1..Len(view.rows) :
              /\ view.rows[i].count = Tally(lf, name, view.rows[i].key)
              /\ view.rows[i].count > 0
        /\ \A k \in {r[name] : r \in Rows(lf)} \ ShownKeys(view) :
              \A i \in 1..Len(view.rows) :
                  Tally(lf, name, k) <= view.rows[i].count

\* the first contributing-factor column of the crash table
FirstFactorCol == SelectSeq(Names(crash_lazy), IsFactorCol)[1]

\* C20: the victim view shows at most 5 person types, the factors view
\* and the vehicle view at most 10 categories, largest count first; a
\* count is the number of filtered rows of that key, and no category left
\* out has more rows than one that is shown
C20_TopCategories ==
    IsCurrentReport =>
        /\ IsTopOf(report.victim, last.person_lf, "PERSON_TYPE",
                   VICTIM_LIMIT)
        /\ report.factors.kind # "annotation" =>
              IsTopOf(report.factors, last.crash_lf, FirstFactorCol,
                      FACTORS_LIMIT)
        /\ report.vehicle.kind # "annotation" =>
              IsTopOf(report.vehicle, last.crash_lf, vehicle_cols[1],
                      VEHICLE_LIMIT)

C20_Witness ==
    /\ IsCurrentReport
    /\ report.victim.kind = "pie"
    /\ Len(report.victim.rows) = VICTIM_LIMIT
    /\ report.factors.kind = "bar"
    /\ Len(report.factors.rows) = FACTORS_LIMIT
    /\ report.vehicle.kind = "bar"
    /\ Len(report.vehicle.rows) = VEHICLE_LIMIT
    /\ \E r \in Rows(last.crash_lf) :
          /\ r[vehicle_cols[1]] \notin ShownKeys(report.vehicle)
          /\ Tally(last.crash_lf, vehicle_cols[1], r[vehicle_cols[1]])
                = report.vehicle.rows[VEHICLE_LIMIT].count


\* the row holds a selected vehicle type in a second or later detected
\* column and none in the first
HitBeyondFirst(r) ==
    /\ ~Holds(r[vehicle_cols[1]], last.sel[3])
    /\ \E i \in 2..Len(vehicle_cols) : Holds(r[vehicle_cols[i]], last.sel[3])

\* the vehicle view counts the rows of the filtered table under the key:
\* it shows the key with the number of filtered rows whose first vehicle
\* column holds it, or it is full and shows no smaller group
CountedUnder(key) ==
    \/ \E i \in 1..Len(report.vehicle.rows) :
          /\ report.vehicle.rows[i].key = key
          /\ report.vehicle.rows[i].count =
                Tally(last.crash_lf, vehicle_cols[1], key)
    \/ /\ Len(report.vehicle.rows) = VEHICLE_LIMIT
       /\ \A i \in 1..Len(report.vehicle.rows) :
             report.vehicle.rows[i].count >=
                Tally(last.crash_lf, vehicle_cols[1], key)

\* C21: under a vehicle selection naming values, a crash row that the
\* borough and year clauses keep and that holds a selected value in a
\* second or later vehicle column only is in the filtered table, and the
\* vehicle view counts it under the value of its first vehicle column
C21_GroupedByFirstColumn ==
    IsVehicleReport /\ vehicle_cols # <<>> =>
        \A r \in Rows(crash_lazy) :
            KeptByBoroughYear(r) /\ HitBeyondFirst(r) =>
                /\ KeptIn(last.crash_lf, crash_lazy, r)
                /\ report.vehicle.kind = "bar"
                /\ CountedUnder(r[vehicle_cols[1]])

\* a report for [Sedan] whose vehicle view lists Truck, for a row of
\* Truck first and Sedan second
C21_Witness ==
    /\ IsVehicleReport
    /\ last.sel[3] = PyList(<<Sedan>>)
    /\ Truck \in ShownKeys(report.vehicle)
    /\ \E r \in Rows(last.crash_lf) :
          /\ HitBeyondFirst(r)
          /\ r[vehicle_cols[1]] = Truck
    /\ \A r \in Rows(last.crash_lf) :
          r[vehicle_cols[1]] = Truck => HitBeyondFirst(r)


\* the catalogs of the three selections handle_search writes
SearchCatalog(k) == Catalog(<<1, 2, 4>>[k])

\* "ALL", or a list of one or more known catalog values
IsKnownSelection(v, k) ==
    \/ v = ALL
    \/ IsList(v) /\ Elems(v) # {} /\ Elems(v) \subseteq SearchCatalog(k)

\* C22: when handle_search is called (by a search submit with any text, a
\* click on Clear, or with nothing triggered) with borough, year and
\* person selections that are each "ALL" or a non-empty list of known
\* catalog values, the three selections it writes are each "ALL" or a
\* non-empty list of known catalog values, never None and never an empty
\* list, and a borough or year selection a search changed has one element
C22_SelectionsStayKnown ==
    LET now == <<borough_filter, year_filter, person_filter>>
    IN  /\ last.op = "handle_search"
        /\ \A k \in 1..3 : IsKnownSelection(last.current[k], k)
        => /\ now = last.out
           /\ \A k \in 1..3 :
                 /\ IsKnownSelection(now[k], k)
                 /\ now[k] # PyNone
                 /\ now[k] # PyList(<<>>)
           /\ IsSubmit =>
                 \A k \in 1..2 :
                     now[k] # last.current[k] => Len(now[k].val) = 1

\* a search from known selections that changed the borough and the year
\* to one value each and the person selection to two, kept the person
\* selection when no type matched, and a clear from lists
C22_Witness ==
    /\ IsSubmit
    /\ \A k \in 1..3 : IsKnownSelection(last.current[k], k)
    /\ last.current[1] # ALL
    /\ borough_filter # last.current[1]
    /\ year_filter # last.current[2]
    /\ IsList(person_filter)
    /\ Len(person_filter.val) = 2
    /\ person_filter # last.current[3]


\* a selection that holds the sentinel together with other values
IsMixedSel(sel) == IsList(sel) /\ ALL \in Elems(sel) /\ Elems(sel) # {ALL}

\* the selection with ALL alone in place of a mixed one
Unmixed(sel) == IF IsMixedSel(sel) THEN PyList(<<ALL>>) ELSE sel

\* C23: when selections of a report hold "ALL" together with concrete
\* values, the filtered crash table and the filtered person table are the
\* ones of the report with ALL alone on those dimensions: borough, year,
\* vehicle type and person type
C23_MixedListIsAll ==
    IsReport /\ (\E d \in 1..4 : IsMixedSel(last.sel[d])) =>
        /\ last.crash_lf = filter_crash_lazy(Unmixed(last.sel[1]),
                                             Unmixed(last.sel[2]),
                                             Unmixed(last.sel[3]))
        /\ last.person_lf = filter_person_lazy(Unmixed(last.sel[1]),
                                               Unmixed(last.sel[2]),
                                               Unmixed(last.sel[4]))

\* a report with a mixed list on each of the four dimensions that keeps
\* rows the concrete values of the lists do not name
C23_Witness ==
    /\ IsReport
    /\ \A d \in 1..4 : IsMixedSel(last.sel[d])
    /\ vehicle_cols # <<>>
    /\ HasColumn(person_lazy, "PERSON_TYPE")
    /\ last.crash_lf = crash_lazy
    /\ last.person_lf = person_lazy
    /\ \E r \in Rows(last.crash_lf) :
          /\ ~Holds(r["BOROUGH"], last.sel[1])
          /\ ~Holds(r["YEAR"], last.sel[2])
          /\ \A i \in 1..Len(vehicle_cols) :
                ~Holds(r[vehicle_cols[i]], last.sel[3])
    /\ \E r \in Rows(last.person_lf) : ~Holds(r["PERSON_TYPE"], last.sel[4])


\* a second report over the same tables for selections that differ from
\* those of the first in the d-th only
DiffersOnlyIn(d) ==
    /\ IsReport
    /\ last.prev.report # NoReport
    /\ last.prev.schemas = last.schemas
    /\ last.args[d] # last.prev.args[d]
    /\ \A k \in 1..4 \ {d} : last.args[k] = last.prev.args[k]

CrashOutputs ==
    {"total_crashes", "total_injuries", "total_deaths", "temporal",
     "borough", "hour", "factors", "vehicle", "map", "seasonal", "heatmap"}
PersonOutputs == {"victim", "age"}

\* the named outputs of a report
Part(out, names) == [name \in names |-> out[name]]

\* the reports update_dashboard can return for the tables the report
\* before the last was made from
PreviousOutputs == Outputs(last.prev.crash_lf, last.prev.person_lf)

KeptRows(lf) ==
    Restrict(lf.rows, {r \in Rows(lf) : KeptByBoroughYear(r)})

\* a report whose borough and year selections are ALL alone or name values
IsBoroughYearReport ==
    /\ IsReport
    /\ IsAllSel(last.sel[1]) \/ IsConcreteSel(last.sel[1])
    /\ IsAllSel(last.sel[2]) \/ IsConcreteSel(last.sel[2])

\* C25: when no vehicle-type column was detected, under a vehicle
\* selection naming values only the filtered crash table holds exactly the
\* rows the borough and year clauses keep; when the person table has no
\* PERSON_TYPE column, under a person selection naming values only the
\* filtered person table holds exactly the rows the borough and year
\* clauses keep.
C25_AbsentFamilyIgnored ==
    IsBoroughYearReport =>
        /\ vehicle_cols = <<>> /\ IsConcreteSel(last.sel[3])
              => last.crash_lf.rows = KeptRows(crash_lazy)
        /\ ~HasColumn(person_lazy, "PERSON_TYPE") /\ IsConcreteSel(last.sel[4])
              => last.person_lf.rows = KeptRows(person_lazy)

\* a report on files with neither family, a vehicle type and a person type
\* selected, where the borough clause keeps some rows of either table and
\* drops others
C25_Witness ==
    /\ IsBoroughYearReport
    /\ vehicle_cols = <<>> /\ IsConcreteSel(last.sel[3])
    /\ ~HasColumn(person_lazy, "PERSON_TYPE") /\ IsConcreteSel(last.sel[4])
    /\ IsConcreteSel(last.sel[1])
    /\ Rows(last.crash_lf) # {} /\ Rows(last.crash_lf) # Rows(crash_lazy)
    /\ Rows(last.person_lf) # {} /\ Rows(last.person_lf) # Rows(person_lazy)

====
